---- MODULE Spec2Model ----
(***************************************************************************)
(* A model of Storm's three drivers: RPCFloodTester (storm/ethereum.py),   *)
(* ABCIFloodTester (storm/abci.py) and ABCIQueryFuzzer                     *)
(* (storm/abci_query_fuzzer.py).                                           *)
(*                                                                         *)
(* Time is counted in ticks, TicksPerSec to the second.  One run of one    *)
(* driver is one behaviour; the server's answers, the signals of the user  *)
(* and the state of the log file are the environment.                      *)
(***************************************************************************)
EXTENDS Integers, Sequences, FiniteSets, TLC

(* ------------------------------ bounds -------------------------------- *)

\* largest requests_per_second a run is configured with
MaxR == 2
\* longest duration (seconds) a run is configured with
MaxDuration == 2
\* most requests a configuration may ask for in total (rate * duration)
MaxRequests == 3
\* most work a configuration may ask for (methods * rate * duration): the
\* longer the method list, the shorter the run
MaxWork == 6
\* largest attempt budget of a discovery run
MaxAttempts == 3
\* the rate and the duration of the throughput scenario
ScenarioR == 10
ScenarioD == 3
\* the attempt budget of the one-template scenario
ScenarioAttempts == 50
\* how many of the sample addresses a run of the attempt loop draws from
MaxSamples == 1
\* how often the report is built over the same statistics
MaxReports == 2

(* ------------------------- program constants -------------------------- *)

\* the 1.0 second of the pacing test `elapsed < 1.0`, in ticks
TicksPerSec == 2
\* float('inf'), the initial min_response_time
Inf == 1000

\* what a request can take, in ticks: half a second, one and a half seconds
Latencies == {1, 3}

\* the known methods (self.all_methods / get_available_methods()), in the
\* order the dictionaries and lists of the code iterate them
AllMethods == <<"m1", "m2", "m3", "m4", "m5">>
MethodSet == {AllMethods[i] : i \in 1..Len(AllMethods)}

\* the method lists a run may be configured with (the -m option)
MethodLists == {<<"m1">>, <<"m1", "m2">>, AllMethods}

Drivers == {"eth", "abci"}

\* Python's `kw in s` of two strings
Contains(s, kw) ==
    \E i \in 1..(Len(s) - Len(kw) + 1) : SubSeq(s, i, i + Len(kw) - 1) = kw

\* Python's s.replace(old, new) of a string with at most one occurence of old
Replace(s, old, new) ==
    IF ~Contains(s, old) THEN s
    ELSE LET i == CHOOSE j \in 1..(Len(s) - Len(old) + 1) :
                      SubSeq(s, j, j + Len(old) - 1) = old
         IN SubSeq(s, 1, i - 1) \o new \o SubSeq(s, i + Len(old), Len(s))

\* The path templates of the fuzzer (simple_paths + self.path_templates): a
\* plain path, a path a payload rule applies to, a path with a placeholder.
Templates ==
    {"/app/version", "/cosmos.bank.v1beta1.Query/Balance", "/fvm/actor_state/{address}"}
\* `"{address}" in path`
AddressTemplates == {t \in Templates : Contains(t, "{address}")}

\* self.sample_addresses as constructed, self.sample_cids
SampleAddressList ==
    <<"cosmos1jxv0u20scum4trha72c7ltfgfqef6nscwf8dg8",
      "cosmos1xyxs3skf3f4jfqeuv89yyaqvjc6lffavxqhc8g",
      "cosmos1e0jnq2sun3dzjh8p2xq95kk0expwmd7shwjpfg",
      "cosmos1ujax3mefa6mn5zeq7xcnetwz9skv9stmuf59sf">>
SampleCids ==
    {"bafy2bzacecmda75ovposbdateg7eyhwij3uucabtxgziaf3aeyn6tuqje7psm",
     "bafy2bzaceaxm23epjsmh75yvzcecsrbavlmkcxnva66bkdcfpsp4fzwovuv6q",
     "bafy2bzacedikkmeotawrxrrbnrdqlsknlad4xjyubo52cmlmuxfhrgxvktws6"}

\* An address a caller may pass as --actor, and one whose text happens to
\* contain the keyword of a payload rule
ActorAddress == "t01000"
NamedActorAddress == "testAccount1"

\* self.path_templates as the attempt loop draws from it: simple_paths
\* followed by the templates of the constructor
PathTemplates ==
    {"/", "/app/info", "/app/version", "/info", "/version", "/store", "/key",
     "/custom", "/p2p/filter/addr", "/p2p/filter/id", "/validators",
     "/store/bank/key", "/cosmos.bank.v1beta1.Query/AllBalances",
     "/cosmos.bank.v1beta1.Query/Balance",
     "/cosmos.bank.v1beta1.Query/TotalSupply",
     "/cosmos.bank.v1beta1.Query/SupplyOf",
     "/cosmos.bank.v1beta1.Query/Params",
     "/cosmos.bank.v1beta1.Query/DenomMetadata",
     "/cosmos.bank.v1beta1.Query/DenomsMetadata", "/store/staking/key",
     "/cosmos.staking.v1beta1.Query/Validators",
     "/cosmos.staking.v1beta1.Query/Validator",
     "/cosmos.staking.v1beta1.Query/ValidatorDelegations",
     "/cosmos.staking.v1beta1.Query/ValidatorUnbondingDelegations",
     "/cosmos.staking.v1beta1.Query/Delegation",
     "/cosmos.staking.v1beta1.Query/UnbondingDelegation",
     "/cosmos.staking.v1beta1.Query/DelegatorDelegations",
     "/cosmos.staking.v1beta1.Query/DelegatorUnbondingDelegations",
     "/cosmos.staking.v1beta1.Query/Redelegations",
     "/cosmos.staking.v1beta1.Query/DelegatorValidators",
     "/cosmos.staking.v1beta1.Query/DelegatorValidator",
     "/cosmos.staking.v1beta1.Query/HistoricalInfo",
     "/cosmos.staking.v1beta1.Query/Pool",
     "/cosmos.staking.v1beta1.Query/Params",
     "/cosmos.gov.v1beta1.Query/Proposal",
     "/cosmos.gov.v1beta1.Query/Proposals", "/cosmos.gov.v1beta1.Query/Vote",
     "/cosmos.gov.v1beta1.Query/Votes", "/cosmos.gov.v1beta1.Query/Params",
     "/cosmos.gov.v1beta1.Query/Deposit",
     "/cosmos.gov.v1beta1.Query/Deposits",
     "/cosmos.gov.v1beta1.Query/TallyResult",
     "/cosmos.auth.v1beta1.Query/Account",
     "/cosmos.auth.v1beta1.Query/Accounts",
     "/cosmos.auth.v1beta1.Query/Params",
     "/cosmos.distribution.v1beta1.Query/Params",
     "/cosmos.distribution.v1beta1.Query/ValidatorOutstandingRewards",
     "/cosmos.distribution.v1beta1.Query/ValidatorCommission",
     "/cosmos.distribution.v1beta1.Query/ValidatorSlashes",
     "/cosmos.distribution.v1beta1.Query/DelegationRewards",
     "/cosmos.distribution.v1beta1.Query/DelegationTotalRewards",
     "/cosmos.distribution.v1beta1.Query/DelegatorValidators",
     "/cosmos.distribution.v1beta1.Query/DelegatorWithdrawAddress",
     "/cosmos.distribution.v1beta1.Query/CommunityPool",
     "/cosmos.slashing.v1beta1.Query/Params",
     "/cosmos.slashing.v1beta1.Query/SigningInfo",
     "/cosmos.slashing.v1beta1.Query/SigningInfos", "/fvm/ipld/{cid}",
     "/fvm/actor_state/{address}", "/fvm/actor_code/{address}",
     "/fvm/actor_balance/{address}", "/fvm/actor_nonce/{address}"}

\* The templates `"{address}" in path` holds of
HasAddress == {t \in PathTemplates : Contains(t, "{address}")}

(* ------------------------------ helpers ------------------------------- *)

Max(a, b) == IF a >= b THEN a ELSE b

RECURSIVE MaxOf(_)
MaxOf(s) == IF s = <<>> THEN 0 ELSE Max(Head(s), MaxOf(Tail(s)))

RECURSIVE SumFn(_, _)
SumFn(f, S) == IF S = {} THEN 0
               ELSE LET x == CHOOSE y \in S : TRUE IN f[x] + SumFn(f, S \ {x})

Range(s) == {s[i] : i \in 1..Len(s)}

RECURSIVE Flatten(_)
Flatten(ss) == IF ss = <<>> THEN <<>> ELSE Head(ss) \o Flatten(Tail(ss))

(* ----------------------------- responses ------------------------------ *)

\* What json.loads makes of the body, as far as the code looks into it:
\*   invalid       not JSON at all
\*   obj_ok        an object with a "result" member and no "error" member
\*   obj_bare      an object with neither
\*   obj_code      an object whose result.response.code is not 0
\*   obj_err       an object with an "error" member
\*   obj_notfound  an object whose error.message says "not found"
\*   scalar        null, a number or a boolean (`"error" in x` raises TypeError)
\*   seq_has       a string or an array that contains "error"
\*   seq_no        a string or an array that does not
BodyKinds ==
    {"invalid", "obj_ok", "obj_bare", "obj_code", "obj_err", "obj_notfound",
     "scalar", "seq_has", "seq_no"}

\* One answer of the server to one request: exc - session.post or
\* response.text() raised (connection refused, timeout, ...); status and body
\* - what arrived otherwise; t - the time it took.
AllResponses == [exc : BOOLEAN, status : {200, 500}, body : BodyKinds, t : Latencies]

\* One representative of each class of answers the flood loop tells apart.
LoopResponses ==
    {r \in AllResponses :
        /\ r.exc => (r.status = 500 /\ r.body = "invalid")
        /\ r.status = 500 => r.body = "invalid"
        /\ r.body \in {"invalid", "obj_ok", "obj_err"}
        /\ r.body = "invalid" => (r.exc \/ r.status = 500)}

ProbeResponses == {r \in LoopResponses : r.t = 1}

NoResponse == [exc |-> TRUE, status |-> 0, body |-> "", t |-> 0]

(* ------------------------- _send_request ------------------------------ *)

\* FailedStage without the test of the HTTP status
FailedStageNoStatus(resp) ==
    IF resp.exc THEN "Exception"
    ELSE IF resp.body = "invalid" THEN "InvalidJSON"
    ELSE IF resp.body = "scalar" THEN "Exception"
    ELSE IF resp.body \in {"obj_err", "obj_notfound", "seq_has"} THEN "Response"
    ELSE "none"

\* The stage of the decision order a response fails at; "none" when it
\* passes them all.  exc: the `except Exception` handler; then
\* `response.status == 200`; then json.loads; then `"error" in
\* response_json`, which raises TypeError into the same `except Exception`
\* handler when the body is null, a number or a boolean.
FailedStage(resp) ==
    IF resp.exc THEN "Exception"
    ELSE IF resp.status # 200 THEN "HTTP"
    ELSE IF resp.body = "invalid" THEN "InvalidJSON"
    ELSE IF resp.body = "scalar" THEN "Exception"
    ELSE IF resp.body \in {"obj_err", "obj_notfound", "seq_has"} THEN "Response"
    ELSE "none"

\* Whether `return False, response_time` of the handler finds response_time
\* assigned.  ethereum.py returns time.time() - start_time instead.
ResponseTimeBound(d, resp) == d = "eth" \/ ~resp.exc

\* What one call of _send_request comes to: raised - an exception left the
\* coroutine (asyncio.gather hands it back as the result); success and rt -
\* the tuple returned otherwise; logs - the details _log_failed_request
\* wrote.  With the log file unwritable (sinkOk false) the first
\* _log_failed_request raises OSError; inside the try block that lands in the
\* handler, whose own _log_failed_request raises again, out of the coroutine.
SendRequest(d, resp, sinkOk) ==
    LET stage == FailedStage(resp) IN
    IF stage = "none"
    THEN [raised |-> FALSE, success |-> TRUE, rt |-> resp.t, logs |-> <<>>]
    ELSE IF ~sinkOk
    THEN [raised |-> TRUE, success |-> FALSE, rt |-> 0, logs |-> <<>>]
    ELSE IF ~ResponseTimeBound(d, resp)
    THEN [raised |-> TRUE, success |-> FALSE, rt |-> 0, logs |-> <<stage>>]
    ELSE [raised |-> FALSE, success |-> FALSE, rt |-> resp.t, logs |-> <<stage>>]

\* LogEntries writing a summary of the request in place of its payload
LogEntriesNoPayload(method, id, kinds) ==
    [k \in 1..Len(kinds) |-> [method |-> method, id |-> 0, detail |-> kinds[k]]]

\* The log entries of one call: the method, the id of the payload sent (0:
\* the entry carries no JSON-RPC payload) and the kind of error detail.
LogEntries(method, id, kinds) ==
    [k \in 1..Len(kinds) |-> [method |-> method, id |-> id, detail |-> kinds[k]]]

(* ----------------------------- statistics ----------------------------- *)

InitStats ==
    [total_requests |-> 0, successful_requests |-> 0, failed_requests |-> 0,
     requests_by_method |-> [m \in MethodSet |-> 0],
     errors_by_method |-> [m \in MethodSet |-> 0],
     min_response_time |-> Inf, max_response_time |-> 0,
     total_response_time |-> 0, start_time |-> 0, end_time |-> 0,
     available_methods |-> {}, unavailable_methods |-> {}]

\* FoldMin with its comparison the wrong way round
FoldMinSwapped(st, rt) ==
    IF rt > st.min_response_time THEN [st EXCEPT !.min_response_time = rt] ELSE st

\* FoldMax keeping the latency folded last
FoldMaxLast(st, rt) == [st EXCEPT !.max_response_time = rt]

\* The two `if` statements that track the extremes.
FoldMin(st, rt) ==
    IF rt < st.min_response_time THEN [st EXCEPT !.min_response_time = rt] ELSE st
FoldMax(st, rt) ==
    IF rt > st.max_response_time THEN [st EXCEPT !.max_response_time = rt] ELSE st

\* The statements RPCFloodTester.run executes for one result of the batch,
\* in order; the last statement of the exception branch is the
\* _log_failed_request call, which changes no statistic.
EthFoldStmts(res, m) ==
    <<"total", "by_method">> \o
    (IF res.raised THEN <<"failed", "errors", "log">>
     ELSE IF res.success THEN <<"successful", "sum", "min", "max">>
     ELSE <<"failed", "errors">>)

\* AbciFoldStmts counting total_requests in the fold as well
AbciFoldStmtsCountingTotal(res, m) ==
    <<"total">> \o
    (IF res.raised THEN <<"failed", "errors", "log">>
     ELSE (IF res.success THEN <<"successful">> ELSE <<"failed", "errors">>)
          \o <<"min", "max", "sum">>)

\* The statements ABCIFloodTester.run executes for one result of the batch.
AbciFoldStmts(res, m) ==
    IF res.raised THEN <<"failed", "errors", "log">>
    ELSE (IF res.success THEN <<"successful">> ELSE <<"failed", "errors">>)
         \o <<"min", "max", "sum">>

FoldStmts(d, res, m) == IF d = "eth" THEN EthFoldStmts(res, m) ELSE AbciFoldStmts(res, m)

\* One statement of the fold applied to the statistics.
ApplyStmt(st, stmt, res, m) ==
    CASE stmt = "total" -> [st EXCEPT !.total_requests = @ + 1]
      [] stmt = "by_method" -> [st EXCEPT !.requests_by_method[m] = @ + 1]
      [] stmt = "failed" -> [st EXCEPT !.failed_requests = @ + 1]
      [] stmt = "errors" -> [st EXCEPT !.errors_by_method[m] = @ + 1]
      [] stmt = "successful" -> [st EXCEPT !.successful_requests = @ + 1]
      [] stmt = "sum" -> [st EXCEPT !.total_response_time = @ + res.rt]
      [] stmt = "min" -> FoldMin(st, res.rt)
      [] stmt = "max" -> FoldMax(st, res.rt)
      [] OTHER -> st

\* The statistics after the first n statements of a fold.
RECURSIVE ApplyStmts(_, _, _, _, _)
ApplyStmts(st, stmts, n, res, m) ==
    IF n = 0 \/ stmts = <<>> THEN st
    ELSE ApplyStmts(ApplyStmt(st, Head(stmts), res, m), Tail(stmts), n - 1, res, m)

\* The whole fold of one result.
Fold(d, st, res, m) ==
    LET stmts == FoldStmts(d, res, m) IN ApplyStmts(st, stmts, Len(stmts), res, m)

\* The fold of a whole batch: the for loop over zip(results,
\* methods_for_this_batch), run to its end.
RECURSIVE FoldAll(_, _, _, _)
FoldAll(d, st, rs, ms) ==
    IF rs = <<>> THEN st
    ELSE FoldAll(d, Fold(d, st, Head(rs), Head(ms)), Tail(rs), Tail(ms))

(* ------------------------------- report -------------------------------- *)

\* max(1, n), the divisor of the report's rates
AtLeastOne(n) == IF n >= 1 THEN n ELSE 1

\* The derived metrics of RPCFloodTester._print_report, rounded down: the
\* average is the avg_response_time run() computes from the statistics just
\* before; the rates per method are error rates over the total.
EthMetrics(st) ==
    [success_rate |-> (st.successful_requests * 100) \div AtLeastOne(st.total_requests),
     failed_rate |-> (st.failed_requests * 100) \div AtLeastOne(st.total_requests),
     requests_per_sec |-> 0,
     avg_response_time |-> IF st.successful_requests > 0
                           THEN st.total_response_time \div st.successful_requests
                           ELSE 0,
     by_method |-> [m \in MethodSet |->
                      (st.errors_by_method[m] * 100) \div AtLeastOne(st.total_requests)]]

\* The derived metrics of ABCIFloodTester._print_report, rounded down: the
\* rates per method are success rates over the method's requests, printed
\* for the methods that have any.
AbciMetrics(st) ==
    [success_rate |-> (st.successful_requests * 100) \div AtLeastOne(st.total_requests),
     failed_rate |-> 0,
     requests_per_sec |-> (st.total_requests * TicksPerSec) \div (st.end_time - st.start_time),
     avg_response_time |-> st.total_response_time \div AtLeastOne(st.total_requests),
     by_method |-> [m \in MethodSet |->
                      IF st.requests_by_method[m] > 0
                      THEN ((st.requests_by_method[m] - st.errors_by_method[m]) * 100)
                               \div st.requests_by_method[m]
                      ELSE 0]]

Metrics(d, st) == IF d = "eth" THEN EthMetrics(st) ELSE AbciMetrics(st)

\* PrintReport keeping max(1, total_requests) in the statistics
PrintReportStoring(d, st) ==
    [stats |-> [st EXCEPT !.total_requests = AtLeastOne(@)], metrics |-> Metrics(d, st)]

\* _print_report: what it leaves in self.stats and what it prints
PrintReport(d, st) == [stats |-> st, metrics |-> Metrics(d, st)]

\* No report built yet
NoReport ==
    [success_rate |-> -1, failed_rate |-> -1, requests_per_sec |-> -1,
     avg_response_time |-> -1, by_method |-> [m \in MethodSet |-> -1]]

(* ------------------------------- state -------------------------------- *)

VARIABLES
    driver,               \* which tester runs
    methods,              \* self.methods / the configured methods, in order
    requests_per_second,  \* self.requests_per_second
    duration,             \* the duration argument of run, in seconds
    pc,                   \* where run() stands
    session,              \* self.session: "none", "open" or "closed"
    request_id,           \* self.request_id
    stats,                \* self.stats
    self_methods,         \* keys of self.available_methods (ethereum.py)
    local_available,      \* available_methods of _test_method_availability
    local_unavailable,    \* unavailable_methods of _test_method_availability
    probe_idx,            \* position of the probe loop in methods
    now,                  \* time.time(), in ticks
    start_loop,           \* start_loop of the current cycle
    end_time,             \* the local end_time = start_time + duration
    tasks,                \* methods_for_this_batch (one task each)
    results,              \* results of asyncio.gather
    idx,                  \* position of the fold loop in results
    log_tail,             \* log entries appended since the cycle began
    log_count,            \* number of entries in the log file
    sink,                 \* whether the log file can be written
    reports,              \* how often _print_report ran
    h_probed,             \* history: what the probe saw of each method
    h_base,               \* history: successful + failed when the fold began
    h_prev_start,         \* history: start_loop of the cycle before (-1: none)
    h_echo,               \* history: what the service check came to
    max_attempts,         \* the max_attempts argument of discover_working_paths
    actor_address,        \* self.actor_address; "" when none was supplied
    fstats,               \* self.stats of the fuzzer
    attempt,              \* i of `for i in range(max_attempts)`
    h_query,              \* history: the last query the fuzzer sent
    h_preflight,          \* history: the fuzzer's validation requests and verdicts
    h_accepts,            \* the one template the server accepts, or "any"
    h_interrupted,        \* history: whether an interrupt was delivered
    h_stages,             \* history: the stage each answer to the current batch fails at
    h_only500,            \* history: every batch request so far was answered HTTP 500
    h_ids,                \* history: the ids of the requests sent, in order
    h_report,             \* the derived metrics _print_report computed last
    h_clean,              \* history of the prober: the methods probed with an answer free of errors
    h_resp                \* the response under classification (SpecClassify)

vars == <<driver, methods, requests_per_second, duration, pc, session,
          request_id, stats, self_methods, local_available, local_unavailable,
          probe_idx, now, start_loop, end_time, tasks, results, idx, log_tail,
          log_count, sink, reports, h_probed, h_base, h_prev_start,
          max_attempts, actor_address, fstats, attempt, h_query,
          h_preflight, h_accepts,
          h_interrupted, h_stages, h_only500, h_ids, h_clean, h_report, h_resp,
          h_echo>>

config == <<driver, methods, requests_per_second, duration, max_attempts,
            actor_address, h_resp, h_accepts>>

\* the state of the fuzzer's run
fuzzv == <<fstats, attempt, h_query, h_preflight>>

\* the state of a flood run that the fuzzer never touches
floodv == <<request_id, h_ids, stats, self_methods, local_available, local_unavailable,
            probe_idx, now, start_loop, end_time, tasks, results, idx, log_tail,
            log_count, h_probed, h_clean, h_base, h_prev_start, h_stages, h_only500,
            h_echo>>

InitFuzzStats ==
    [total_queries |-> 0, successful_queries |-> 0, failed_queries |-> 0,
     paths_tried |-> {}, successful_paths |-> {},
     failed_paths |-> [t \in Templates |-> 0],
     min_response_time |-> Inf, max_response_time |-> 0,
     total_response_time |-> 0]

NoQuery ==
    [template |-> "", address |-> "", path |-> "", data |-> {},
     success |-> FALSE, detail |-> ""]

\* The fields of a constructed tester: counters at zero, extremes at their
\* sentinels, no session.
Fresh ==
    /\ session = "none"
    /\ request_id = 0
    /\ stats = InitStats
    /\ self_methods = Range(methods)
    /\ local_available = {}
    /\ local_unavailable = {}
    /\ probe_idx = 1
    /\ now = 0
    /\ start_loop = 0
    /\ end_time = 0
    /\ tasks = <<>>
    /\ results = <<>>
    /\ idx = 1
    /\ log_tail = <<>>
    /\ log_count = 0
    /\ reports = 0
    /\ h_probed = [m \in MethodSet |-> "none"]
    /\ h_base = 0
    /\ h_prev_start = -1
    /\ h_echo = "none"
    /\ h_stages = <<>>
    /\ h_only500 = TRUE
    /\ h_ids = <<>>
    /\ h_clean = {}
    /\ h_report = NoReport
    /\ fstats = InitFuzzStats
    /\ attempt = 0
    /\ h_query = NoQuery
    /\ h_preflight = <<>>
    /\ h_interrupted = FALSE

\* The state a constructed tester is in before run() is called.
Constructed ==
    /\ pc = "start"
    /\ sink = TRUE
    /\ Fresh

\* A flood tester constructed with its methods and rate, run for a duration
InitFlood ==
    /\ driver \in Drivers
    /\ methods \in MethodLists
    /\ requests_per_second \in 1..MaxR
    /\ duration \in 1..MaxDuration
    /\ requests_per_second * duration <= MaxRequests
    /\ Len(methods) * requests_per_second * duration <= MaxWork
    /\ max_attempts = 0
    /\ actor_address = ""
    /\ h_resp = NoResponse
    /\ h_accepts = "any"
    /\ Constructed

\* A fuzzer constructed with or without an actor address, run for a budget
InitFuzz ==
    /\ driver = "fuzz"
    /\ methods = <<"m1">>
    /\ requests_per_second = 1
    /\ duration = 1
    /\ max_attempts \in 0..MaxAttempts
    /\ actor_address \in {"", ActorAddress}
    /\ h_resp = NoResponse
    /\ h_accepts = "any"
    /\ Constructed

Init == InitFlood \/ InitFuzz

Terminal == {"done", "exit", "crashed", "cancelled"}

(* ------------------------------ preflight ------------------------------ *)

\* self.session = aiohttp.ClientSession() / _create_session
CreateSession ==
    /\ pc = "start"
    /\ session' = "open"
    /\ pc' = CASE driver = "abci" -> "service"
                [] driver = "eth" -> "probe"
                [] OTHER -> "validate"
    /\ UNCHANGED <<config, fuzzv, h_interrupted, request_id, h_ids, stats, self_methods, local_available,
                   local_unavailable, probe_idx, now, start_loop, end_time, tasks,
                   results, idx, log_tail, log_count, sink, reports, h_report, h_probed, h_clean,
                   h_base, h_stages, h_only500, h_prev_start, h_echo>>

\* CheckService going on to the probes whatever the answer
CheckServiceLenient ==
    /\ pc = "service"
    /\ \E resp \in ProbeResponses :
        LET ok == ~resp.exc /\ resp.status = 200 IN
        /\ request_id' = request_id + 1
        /\ h_ids' = Append(h_ids, request_id + 1)
        /\ session' = session
        /\ pc' = "probe"
        /\ h_echo' = IF ok THEN "ok" ELSE IF resp.exc THEN "raised" ELSE "refused"
    /\ UNCHANGED <<config, fuzzv, h_interrupted, stats, self_methods, local_available, local_unavailable,
                   probe_idx, now, start_loop, end_time, tasks, results, idx,
                   log_tail, log_count, sink, reports, h_report, h_probed, h_clean, h_base, h_stages, h_only500,
                   h_prev_start>>

\* ABCIFloodTester._check_service_availability and the exit that follows it
CheckService ==
    /\ pc = "service"
    /\ \E resp \in ProbeResponses :
        LET ok == ~resp.exc /\ resp.status = 200 IN
        /\ request_id' = request_id + 1
        /\ h_ids' = Append(h_ids, request_id + 1)
        /\ session' = IF ok THEN session ELSE "closed"
        /\ pc' = IF ok THEN "probe" ELSE "exit"
        /\ h_echo' = IF ok THEN "ok" ELSE IF resp.exc THEN "raised" ELSE "refused"
    /\ UNCHANGED <<config, fuzzv, h_interrupted, stats, self_methods, local_available, local_unavailable,
                   probe_idx, now, start_loop, end_time, tasks, results, idx,
                   log_tail, log_count, sink, reports, h_report, h_probed, h_clean, h_base, h_stages, h_only500,
                   h_prev_start>>

\* Whether ABCIFloodTester._check_method_availability takes a probe's answer
\* for "available": `response.status == 200`, False on any exception.
AbciProbeAvailable(resp) == ~resp.exc /\ resp.status = 200

\* One iteration of the probe loop of ABCIFloodTester._check_method_availability
AbciProbeOne ==
    /\ pc = "probe"
    /\ driver = "abci"
    /\ probe_idx <= Len(methods)
    /\ \E resp \in ProbeResponses :
        LET m == methods[probe_idx]
            ok == AbciProbeAvailable(resp) IN
        /\ request_id' = request_id + 1
        /\ h_ids' = Append(h_ids, request_id + 1)
        /\ stats' = IF ok THEN [stats EXCEPT !.available_methods = @ \cup {m}] ELSE stats
        /\ h_probed' = [h_probed EXCEPT ![m] = IF ok THEN "ok" ELSE "bad"]
        /\ h_clean' = IF FailedStage(resp) = "none" THEN h_clean \cup {m} ELSE h_clean
    /\ probe_idx' = probe_idx + 1
    /\ pc' = IF probe_idx = Len(methods) THEN "probed" ELSE "probe"
    /\ UNCHANGED <<config, fuzzv, h_interrupted, session, self_methods, local_available, local_unavailable,
                   now, start_loop, end_time, tasks, results, idx, log_tail,
                   log_count, sink, reports, h_report, h_base, h_stages, h_only500, h_prev_start, h_echo>>

\* One iteration of the probe loop of RPCFloodTester._test_method_availability;
\* the last one also stores the two lists in self.stats.  An exception
\* leaving _send_request leaves run() too.
EthProbeOne ==
    /\ pc = "probe"
    /\ driver = "eth"
    /\ probe_idx <= Len(methods)
    /\ \E resp \in ProbeResponses :
        LET m == methods[probe_idx]
            res == SendRequest("eth", resp, sink)
            last == probe_idx = Len(methods)
            av == IF res.success THEN local_available \cup {m} ELSE local_available
            un == IF res.success THEN local_unavailable ELSE local_unavailable \cup {m}
            st == IF res.success THEN [stats EXCEPT !.requests_by_method[m] = 0] ELSE stats
        IN
        /\ request_id' = request_id + 1
        /\ h_ids' = Append(h_ids, request_id + 1)
        /\ log_tail' = log_tail \o LogEntries(m, request_id + 1, res.logs)
        /\ log_count' = log_count + Len(res.logs)
        /\ IF res.raised
           THEN /\ pc' = "crashed"
                /\ UNCHANGED <<stats, local_available, local_unavailable, h_probed, h_clean, h_echo>>
           ELSE /\ local_available' = av
                /\ local_unavailable' = un
                /\ stats' = IF last
                            THEN [st EXCEPT !.available_methods = av,
                                            !.unavailable_methods = un]
                            ELSE st
                /\ h_probed' = [h_probed EXCEPT ![m] = IF res.success THEN "ok" ELSE "bad"]
                /\ h_clean' = IF FailedStage(resp) = "none"
                              THEN h_clean \cup {m} ELSE h_clean
                /\ pc' = IF last THEN "probed" ELSE "probe"
    /\ probe_idx' = probe_idx + 1
    /\ UNCHANGED <<config, fuzzv, h_interrupted, session, self_methods, now, start_loop, end_time, tasks,
                   results, idx, sink, reports, h_report, h_base, h_stages, h_only500, h_prev_start, h_echo>>

\* `if not available: close the session and leave` - return self.stats in
\* ethereum.py, sys.exit(1) in abci.py; no report is printed.
NoMethods ==
    /\ pc = "probed"
    /\ stats.available_methods = {}
    /\ session' = "closed"
    /\ pc' = "exit"
    /\ h_clean' = {}
    /\ UNCHANGED <<config, fuzzv, h_interrupted, request_id, h_ids, stats, self_methods, local_available,
                   local_unavailable, probe_idx, now, start_loop, end_time, tasks,
                   results, idx, log_tail, log_count, sink, reports, h_report, h_probed,
                   h_base, h_stages, h_only500, h_prev_start, h_echo>>

\* StartLoop without the test that some method is available
StartLoopUnguarded ==
    /\ pc = "probed"
    /\ self_methods' = IF driver = "eth"
                       THEN {m \in self_methods : m \in stats.available_methods}
                       ELSE self_methods
    /\ stats' = [stats EXCEPT !.start_time = now]
    /\ end_time' = now + duration * TicksPerSec
    /\ pc' = "loop"
    /\ h_clean' = {}
    /\ UNCHANGED <<config, fuzzv, h_interrupted, session, request_id, h_ids, local_available,
                   local_unavailable, probe_idx, now, start_loop, tasks, results,
                   idx, log_tail, log_count, sink, reports, h_report, h_probed, h_base, h_stages, h_only500,
                   h_prev_start, h_echo>>

\* The filter of self.available_methods (ethereum.py), start_time and end_time
StartLoop ==
    /\ pc = "probed"
    /\ stats.available_methods # {}
    /\ self_methods' = IF driver = "eth"
                       THEN {m \in self_methods : m \in stats.available_methods}
                       ELSE self_methods
    /\ stats' = [stats EXCEPT !.start_time = now]
    /\ end_time' = now + duration * TicksPerSec
    /\ pc' = "loop"
    /\ h_clean' = {}
    /\ UNCHANGED <<config, fuzzv, h_interrupted, session, request_id, h_ids, local_available,
                   local_unavailable, probe_idx, now, start_loop, tasks, results,
                   idx, log_tail, log_count, sink, reports, h_report, h_probed, h_base, h_stages, h_only500,
                   h_prev_start, h_echo>>

(* ----------------------------- batch loop ----------------------------- *)

\* Pool without the filter: every configured method
PoolUnfiltered == Range(methods)

\* What random.choice draws a batch's methods from: the keys of the filtered
\* self.available_methods (ethereum.py), self.stats["available_methods"]
\* (abci.py).
Pool == IF driver = "eth" THEN self_methods ELSE stats.available_methods

\* How often method m occurs among the first n of ms.
Occurrences(ms, n, m) == Cardinality({k \in 1..n : ms[k] = m})

\* CountIssued counting nothing when the tasks are created
CountIssuedNever(st, ms, n) == st

\* requests_by_method after abci.py counted the first n selections of ms
\* while it created their tasks; ethereum.py counts in the fold instead.
CountIssued(st, ms, n) ==
    IF driver = "abci"
    THEN [st EXCEPT !.requests_by_method =
              [m \in MethodSet |-> @[m] + Occurrences(ms, n, m)]]
    ELSE st

\* Issue with the loop test as `while time.time() <= end_time`
IssueInclusive ==
    /\ pc = "loop"
    /\ now <= end_time
    /\ \E ms \in [1..requests_per_second -> Pool] :
        /\ tasks' = ms
        /\ stats' = CountIssued(stats, ms, requests_per_second)
    /\ start_loop' = now
    /\ h_prev_start' = IF tasks = <<>> THEN -1 ELSE start_loop
    /\ results' = <<>>
    /\ idx' = 1
    /\ log_tail' = <<>>
    /\ pc' = "gather"
    /\ h_stages' = <<>>
    /\ UNCHANGED <<config, fuzzv, h_interrupted, session, request_id, h_ids, self_methods, local_available,
                   local_unavailable, probe_idx, now, end_time, log_count, sink,
                   reports, h_report, h_probed, h_clean, h_base, h_only500, h_echo>>

\* Issue without waiting for the fold of the batch before
IssueOverlapping ==
    /\ pc \in {"loop", "fold"}
    /\ now < end_time
    /\ \E ms \in [1..requests_per_second -> Pool] :
        /\ tasks' = ms
        /\ stats' = CountIssued(stats, ms, requests_per_second)
    /\ start_loop' = now
    /\ h_prev_start' = IF tasks = <<>> THEN -1 ELSE start_loop
    /\ results' = <<>>
    /\ idx' = 1
    /\ log_tail' = <<>>
    /\ pc' = "gather"
    /\ h_stages' = <<>>
    /\ UNCHANGED <<config, fuzzv, h_interrupted, session, request_id, h_ids, self_methods, local_available,
                   local_unavailable, probe_idx, now, end_time, log_count, sink,
                   reports, h_report, h_probed, h_clean, h_base, h_only500, h_echo>>

\* `while time.time() < end_time`, start_loop, and the for loop that selects
\* requests_per_second methods and creates their tasks
Issue ==
    /\ pc = "loop"
    /\ now < end_time
    /\ \E ms \in [1..requests_per_second -> Pool] :
        /\ tasks' = ms
        /\ stats' = CountIssued(stats, ms, requests_per_second)
    /\ start_loop' = now
    /\ h_prev_start' = IF tasks = <<>> THEN -1 ELSE start_loop
    /\ results' = <<>>
    /\ idx' = 1
    /\ log_tail' = <<>>
    /\ pc' = "gather"
    /\ h_stages' = <<>>
    /\ UNCHANGED <<config, fuzzv, h_interrupted, session, request_id, h_ids, self_methods, local_available,
                   local_unavailable, probe_idx, now, end_time, log_count, sink,
                   reports, h_report, h_probed, h_clean, h_base, h_only500, h_echo>>

\* `while time.time() < end_time` found false
LoopExit ==
    /\ pc = "loop"
    /\ ~(now < end_time)
    /\ pc' = "final"
    /\ UNCHANGED <<config, fuzzv, h_interrupted, session, request_id, h_ids, stats, self_methods,
                   local_available, local_unavailable, probe_idx, now, start_loop,
                   end_time, tasks, results, idx, log_tail, log_count, sink,
                   reports, h_report, h_probed, h_clean, h_base, h_stages, h_only500, h_prev_start, h_echo>>

\* BatchIds with the counter read after every task of the batch has
\* incremented it
BatchIdsShared(first, n) == [k \in 1..n |-> first + n]

\* The ids the n tasks of a batch put into their requests when the counter
\* stands at first: each task increments self.request_id and reads it before
\* its first await, and the tasks start in the order they were created.
BatchIds(first, n) == [k \in 1..n |-> first + k]

\* results = await asyncio.gather(*tasks, return_exceptions=True): every task
\* runs _send_request to its end; the tasks start in order, so the ids are
\* taken in order; the gather is over when the slowest request is.
GatherFrom(answers) ==
    /\ pc = "gather"
    /\ \E rs \in [1..Len(tasks) -> answers] :
        LET res == [k \in 1..Len(tasks) |-> SendRequest(driver, rs[k], sink)]
            ids == BatchIds(request_id, Len(tasks))
            entries == Flatten([k \in 1..Len(tasks) |->
                           LogEntries(tasks[k], ids[k], res[k].logs)])
        IN
        /\ h_ids' = h_ids \o ids
        /\ results' = res
        /\ log_tail' = log_tail \o entries
        /\ log_count' = log_count + Len(entries)
        /\ now' = now + MaxOf([k \in 1..Len(tasks) |-> rs[k].t])
        /\ h_stages' = [k \in 1..Len(tasks) |-> FailedStage(rs[k])]
        /\ h_only500' = (h_only500 /\ \A k \in 1..Len(tasks) :
                                          ~rs[k].exc /\ rs[k].status = 500)
    /\ request_id' = request_id + Len(tasks)
    /\ h_base' = stats.successful_requests + stats.failed_requests
    /\ idx' = 1
    /\ pc' = "fold"
    /\ UNCHANGED <<config, fuzzv, h_interrupted, session, stats, self_methods, local_available,
                   local_unavailable, probe_idx, start_loop, end_time, tasks, sink,
                   reports, h_report, h_probed, h_clean, h_prev_start, h_echo>>

\* The gather against a server that may answer anything
Gather == GatherFrom(LoopResponses)

\* One iteration of `for result, method in zip(results, methods_for_this_batch)`.
\* The _log_failed_request of the exception branch raises when the log file
\* cannot be written; nothing in run() catches that.
FoldOne ==
    /\ pc = "fold"
    /\ idx <= Len(results)
    /\ LET res == results[idx]
           m == tasks[idx]
           stmts == FoldStmts(driver, res, m)
       IN
       IF res.raised /\ ~sink
       THEN /\ stats' = ApplyStmts(stats, stmts, Len(stmts) - 1, res, m)
            /\ pc' = "crashed"
            /\ UNCHANGED <<idx, log_tail, log_count, h_echo>>
       ELSE /\ stats' = Fold(driver, stats, res, m)
            /\ log_tail' = IF res.raised
                           THEN log_tail \o LogEntries(m, 0, <<"Exception">>)
                           ELSE log_tail
            /\ log_count' = IF res.raised THEN log_count + 1 ELSE log_count
            /\ idx' = idx + 1
            /\ pc' = IF idx = Len(results) THEN "pace" ELSE "fold"
    /\ UNCHANGED <<config, fuzzv, h_interrupted, session, request_id, h_ids, self_methods, local_available,
                   local_unavailable, probe_idx, now, start_loop, end_time, tasks,
                   results, sink, reports, h_report, h_probed, h_clean, h_base, h_stages, h_only500, h_prev_start, h_echo>>

\* elapsed = time.time() - start_loop
Elapsed == now - start_loop

\* SleepFor without the sleep
SleepForNothing(elapsed) == 0

\* SleepFor as `await asyncio.sleep(1.0)`: a full second after every cycle
SleepForFullSecond(elapsed) == TicksPerSec

\* How long the cycle sleeps: `if elapsed < 1.0: await asyncio.sleep(1.0 - elapsed)`
SleepFor(elapsed) == IF elapsed < TicksPerSec THEN TicksPerSec - elapsed ELSE 0

\* The pacing sleep
Pace ==
    /\ pc = "pace"
    /\ now' = now + SleepFor(Elapsed)
    /\ pc' = "wake"
    /\ UNCHANGED <<config, fuzzv, h_interrupted, session, request_id, h_ids, stats, self_methods,
                   local_available, local_unavailable, probe_idx, start_loop,
                   end_time, tasks, results, idx, log_tail, log_count, sink,
                   reports, h_report, h_probed, h_clean, h_base, h_stages, h_only500, h_prev_start, h_echo>>

\* CycleEnd counting one request for the whole batch
CycleEndByOne(d, st, n) ==
    IF d = "abci" THEN [st EXCEPT !.total_requests = @ + 1] ELSE st

\* The statistics after the end of a cycle: abci.py adds len(tasks) to
\* total_requests there; ethereum.py only updates the progress bar.
CycleEnd(d, st, n) ==
    IF d = "abci" THEN [st EXCEPT !.total_requests = @ + n] ELSE st

\* pbar.update(1) and what follows it in the loop body
EndCycle ==
    /\ pc = "wake"
    /\ stats' = CycleEnd(driver, stats, Len(tasks))
    /\ pc' = "loop"
    /\ UNCHANGED <<config, fuzzv, h_interrupted, session, request_id, h_ids, self_methods, local_available,
                   local_unavailable, probe_idx, now, start_loop, end_time, tasks,
                   results, idx, log_tail, log_count, sink, reports, h_report, h_probed, h_clean,
                   h_base, h_stages, h_only500, h_prev_start, h_echo>>

\* After the loop: end_time recorded, the session closed, the report printed
Finalize ==
    /\ pc = "final"
    /\ stats' = [stats EXCEPT !.end_time = now]
    /\ session' = "closed"
    /\ reports' = reports + 1
    /\ UNCHANGED h_report
    /\ pc' = "done"
    /\ UNCHANGED <<config, fuzzv, h_interrupted, request_id, h_ids, self_methods, local_available,
                   local_unavailable, probe_idx, now, start_loop, end_time, tasks,
                   results, idx, log_tail, log_count, sink, h_probed, h_clean, h_base, h_stages, h_only500,
                   h_prev_start, h_echo>>

(* ------------------------------ discovery ----------------------------- *)

\* One representative of each class of answers the fuzzer's preflight tells
\* apart, and of each class its attempt loop tells apart.
PreflightResponses ==
    {r \in AllResponses :
        /\ r.t = 1
        /\ r.exc => (r.status = 500 /\ r.body = "invalid")
        /\ r.status = 500 => r.body = "invalid"
        /\ r.body = "invalid" => (r.exc \/ r.status = 500)}

FuzzResponses ==
    {r \in AllResponses :
        /\ r.exc => (r.status = 500 /\ r.body = "invalid")
        /\ r.status = 500 => r.body = "invalid"
        /\ r.body = "invalid" => (r.exc \/ r.status = 500)}

\* The first request of _validate_endpoint ("status"): "yes" and "no" are
\* its return values, "retry" is the fall through to the abci_info request
\* when the object answered has neither a "result" nor an "error" member.
ValidateFirst(resp) ==
    IF resp.exc THEN "no"
    ELSE IF resp.status # 200 THEN "no"
    ELSE IF resp.body = "invalid" THEN "no"
    ELSE IF resp.body = "scalar" THEN "no"
    ELSE IF resp.body \in {"obj_ok", "obj_code"} THEN "yes"
    ELSE IF resp.body \in {"obj_err", "obj_notfound", "seq_has"} THEN "yes"
    ELSE "retry"

\* The second request of _validate_endpoint ("abci_info")
ValidateSecond(resp) ==
    ~resp.exc /\ resp.status = 200 /\ resp.body \in {"obj_ok", "obj_code"}

\* _test_direct_query
TestDirectQuery(resp) ==
    IF resp.exc THEN FALSE
    ELSE IF resp.status # 200 THEN FALSE
    ELSE IF resp.body = "invalid" THEN FALSE
    ELSE IF resp.body \in {"scalar", "seq_has"} THEN FALSE
    ELSE IF resp.body = "obj_notfound" THEN FALSE
    ELSE TRUE

\* The bodies query tells apart: those of BodyKinds and
\*   obj_flat   an object without "error" whose "result", or the "response"
\*              in it, is not an object (null, a string, a number, ...), so
\*              that `.get` raises AttributeError
QueryBodyKinds == BodyKinds \cup {"obj_flat"}

QueryResponses ==
    [exc : BOOLEAN, status : {200, 500}, body : QueryBodyKinds, t : Latencies]

\* Query without the test of result.response.code
QueryIgnoringCode(resp) ==
    IF resp.exc THEN [success |-> FALSE, detail |-> "exception"]
    ELSE IF resp.status # 200 THEN [success |-> FALSE, detail |-> "text"]
    ELSE IF resp.body = "invalid" THEN [success |-> FALSE, detail |-> "text"]
    ELSE IF resp.body = "scalar" THEN [success |-> FALSE, detail |-> "exception"]
    ELSE IF resp.body \in {"obj_err", "obj_notfound", "seq_has"}
         THEN [success |-> FALSE, detail |-> "json"]
    ELSE IF resp.body \in {"seq_no", "obj_flat"}
         THEN [success |-> FALSE, detail |-> "exception"]
    ELSE [success |-> TRUE, detail |-> "json"]

\* ABCIQueryFuzzer.query: the success it returns and the kind of its third
\* value (the exception text, the body text or the parsed body).  A string or
\* array has no .get: AttributeError, caught by `except Exception`.
Query(resp) ==
    IF resp.exc THEN [success |-> FALSE, detail |-> "exception"]
    ELSE IF resp.status # 200 THEN [success |-> FALSE, detail |-> "text"]
    ELSE IF resp.body = "invalid" THEN [success |-> FALSE, detail |-> "text"]
    ELSE IF resp.body = "scalar" THEN [success |-> FALSE, detail |-> "exception"]
    ELSE IF resp.body \in {"obj_err", "obj_notfound", "seq_has"}
         THEN [success |-> FALSE, detail |-> "json"]
    ELSE IF resp.body \in {"seq_no", "obj_flat"}
         THEN [success |-> FALSE, detail |-> "exception"]
    ELSE IF resp.body = "obj_code" THEN [success |-> FALSE, detail |-> "json"]
    ELSE [success |-> TRUE, detail |-> "json"]

\* self.sample_addresses: the supplied address is put in front of the samples
SampleAddresses(n) ==
    (IF actor_address # "" THEN {actor_address} ELSE {})
        \cup {SampleAddressList[i] : i \in 1..n}

\* ReplacePathParams drawing from the samples on every query
ReplacePathParamsAtRandom(template, tried, pool) ==
    IF template \notin HasAddress THEN {""} ELSE pool

\* The addresses _replace_path_params may put into a template: the supplied
\* one on the first query of the template, any sample otherwise; "" when the
\* template has no {address}.
ReplacePathParams(template, tried, pool) ==
    IF template \notin HasAddress THEN {""}
    ELSE IF actor_address # "" /\ template \notin tried THEN {actor_address}
    ELSE pool

\* The cids _replace_path_params may put into a template; "" when the
\* template has no {cid}.
ReplaceCid(template) == IF Contains(template, "{cid}") THEN SampleCids ELSE {""}

\* The path _replace_path_params returns when it draws address and cid
Substitute(template, address, cid) ==
    Replace(Replace(template, "{address}", address), "{cid}", cid)

\* GenerateDataForPath with the rule of "Balance" tried before the rule of
\* "AllBalances"
GenerateDataBalanceFirst(path) ==
    IF Contains(path, "Balance") THEN {"address", "denom"}
    ELSE IF Contains(path, "AllBalances") THEN {"address"}
    ELSE IF Contains(path, "SupplyOf") THEN {"denom"}
    ELSE IF Contains(path, "Validator") /\ ~Contains(path, "Validators")
         THEN {"validator_addr"}
    ELSE IF Contains(path, "Delegation") THEN {"delegator_addr", "validator_addr"}
    ELSE IF Contains(path, "Proposal") /\ ~Contains(path, "Proposals")
         THEN {"proposal_id"}
    ELSE IF Contains(path, "Vote") /\ ~Contains(path, "Votes")
         THEN {"proposal_id", "voter"}
    ELSE IF Contains(path, "Account") /\ ~Contains(path, "Accounts")
         THEN {"address"}
    ELSE {}

\* _generate_data_for_path: the members of the payload it builds for a path
\* (their values are drawn at random), by the first rule of the if/elif chain
\* the path matches.
GenerateDataForPath(path) ==
    IF Contains(path, "AllBalances") THEN {"address"}
    ELSE IF Contains(path, "Balance") THEN {"address", "denom"}
    ELSE IF Contains(path, "SupplyOf") THEN {"denom"}
    ELSE IF Contains(path, "Validator") /\ ~Contains(path, "Validators")
         THEN {"validator_addr"}
    ELSE IF Contains(path, "Delegation") THEN {"delegator_addr", "validator_addr"}
    ELSE IF Contains(path, "Proposal") /\ ~Contains(path, "Proposals")
         THEN {"proposal_id"}
    ELSE IF Contains(path, "Vote") /\ ~Contains(path, "Votes")
         THEN {"proposal_id", "voter"}
    ELSE IF Contains(path, "Account") /\ ~Contains(path, "Accounts")
         THEN {"address"}
    ELSE {}

\* FoldQuery counting a query only when it succeeded
FoldQueryCountsSuccesses(st, template, success, rt) ==
    LET s1 == [st EXCEPT !.paths_tried = @ \cup {template}]
        s2 == IF success
              THEN [s1 EXCEPT !.total_queries = @ + 1,
                              !.successful_queries = @ + 1,
                              !.successful_paths = @ \cup {template}]
              ELSE [s1 EXCEPT !.failed_queries = @ + 1,
                              !.failed_paths[template] = @ + 1]
    IN [s2 EXCEPT !.total_response_time = @ + rt]

\* FoldQuery recording a template as tried only when its query succeeded
FoldQueryTriedOnSuccess(st, template, success, rt) ==
    LET s1 == [st EXCEPT !.total_queries = @ + 1]
        s2 == IF success
              THEN [s1 EXCEPT !.successful_queries = @ + 1,
                              !.paths_tried = @ \cup {template},
                              !.successful_paths = @ \cup {template}]
              ELSE [s1 EXCEPT !.failed_queries = @ + 1,
                              !.failed_paths[template] = @ + 1]
    IN [s2 EXCEPT !.total_response_time = @ + rt]

\* FoldQuery taking every queried template for a working path
FoldQueryAlwaysWorking(st, template, success, rt) ==
    LET s1 == [st EXCEPT !.total_queries = @ + 1,
                         !.paths_tried = @ \cup {template},
                         !.successful_paths = @ \cup {template}]
        s2 == IF success
              THEN [s1 EXCEPT !.successful_queries = @ + 1]
              ELSE [s1 EXCEPT !.failed_queries = @ + 1,
                              !.failed_paths[template] = @ + 1]
    IN [s2 EXCEPT !.total_response_time = @ + rt]

\* FoldQuery taking a template that fails out of successful_paths
FoldQueryDroppingFlaky(st, template, success, rt) ==
    LET s1 == [st EXCEPT !.total_queries = @ + 1,
                         !.paths_tried = @ \cup {template}]
        s2 == IF success
              THEN [s1 EXCEPT !.successful_queries = @ + 1,
                              !.successful_paths = @ \cup {template}]
              ELSE [s1 EXCEPT !.failed_queries = @ + 1,
                              !.successful_paths = @ \ {template},
                              !.failed_paths[template] = @ + 1]
        s3 == IF rt < s2.min_response_time
              THEN [s2 EXCEPT !.min_response_time = rt] ELSE s2
        s4 == IF rt > s3.max_response_time
              THEN [s3 EXCEPT !.max_response_time = rt] ELSE s3
    IN [s4 EXCEPT !.total_response_time = @ + rt]

\* FoldQuery setting the failed_paths count to 1 in place of adding 1 to it
FoldQueryFailedOnce(st, template, success, rt) ==
    LET s1 == [st EXCEPT !.total_queries = @ + 1,
                         !.paths_tried = @ \cup {template}]
        s2 == IF success
              THEN [s1 EXCEPT !.successful_queries = @ + 1,
                              !.successful_paths = @ \cup {template}]
              ELSE [s1 EXCEPT !.failed_queries = @ + 1,
                              !.failed_paths[template] = 1]
        s3 == IF rt < s2.min_response_time
              THEN [s2 EXCEPT !.min_response_time = rt] ELSE s2
        s4 == IF rt > s3.max_response_time
              THEN [s3 EXCEPT !.max_response_time = rt] ELSE s3
    IN [s4 EXCEPT !.total_response_time = @ + rt]

\* The statistics after one attempt
FoldQuery(st, template, success, rt) ==
    LET s1 == [st EXCEPT !.total_queries = @ + 1,
                         !.paths_tried = @ \cup {template}]
        s2 == IF success
              THEN [s1 EXCEPT !.successful_queries = @ + 1,
                              !.successful_paths = @ \cup {template}]
              ELSE [s1 EXCEPT !.failed_queries = @ + 1,
                              !.failed_paths[template] = @ + 1]
        s3 == IF rt < s2.min_response_time
              THEN [s2 EXCEPT !.min_response_time = rt] ELSE s2
        s4 == IF rt > s3.max_response_time
              THEN [s3 EXCEPT !.max_response_time = rt] ELSE s3
    IN [s4 EXCEPT !.total_response_time = @ + rt]

\* ValidateEndpoint without the abort: a False goes on to _test_direct_query
ValidateEndpointNoAbort ==
    /\ pc = "validate"
    /\ \E resp \in PreflightResponses :
        LET v == ValidateFirst(resp) IN
        /\ pc' = CASE v = "yes" -> "direct"
                   [] v = "no" -> "direct"
                   [] OTHER -> "validate2"
        /\ session' = session
        /\ h_preflight' = Append(h_preflight, [req |-> "status", verdict |-> v])
    /\ UNCHANGED <<config, fstats, attempt, h_query, floodv, sink, reports, h_report,
                   h_interrupted>>

\* The first request of _validate_endpoint and the abort that follows a False
ValidateEndpoint ==
    /\ pc = "validate"
    /\ \E resp \in PreflightResponses :
        LET v == ValidateFirst(resp) IN
        /\ pc' = CASE v = "yes" -> "direct"
                   [] v = "no" -> "exit"
                   [] OTHER -> "validate2"
        /\ session' = IF v = "no" THEN "closed" ELSE session
        /\ h_preflight' = Append(h_preflight, [req |-> "status", verdict |-> v])
    /\ UNCHANGED <<config, fstats, attempt, h_query, floodv, sink, reports, h_report,
                   h_interrupted>>

\* The second request of _validate_endpoint and the abort that follows a False
ValidateEndpointAgain ==
    /\ pc = "validate2"
    /\ \E resp \in PreflightResponses :
        LET v == ValidateSecond(resp) IN
        /\ pc' = IF v THEN "direct" ELSE "exit"
        /\ session' = IF v THEN session ELSE "closed"
        /\ h_preflight' = Append(h_preflight,
               [req |-> "abci_info", verdict |-> IF v THEN "yes" ELSE "no"])
    /\ UNCHANGED <<config, fstats, attempt, h_query, floodv, sink, reports, h_report,
                   h_interrupted>>

\* _test_direct_query and the abort that follows a False
DirectQuery ==
    /\ pc = "direct"
    /\ \E resp \in PreflightResponses :
        LET v == TestDirectQuery(resp) IN
        /\ pc' = IF v THEN "attempts" ELSE "exit"
        /\ session' = IF v THEN session ELSE "closed"
        /\ h_preflight' = Append(h_preflight,
               [req |-> "abci_query", verdict |-> IF v THEN "yes" ELSE "no"])
    /\ UNCHANGED <<config, fstats, attempt, h_query, floodv, sink, reports, h_report,
                   h_interrupted>>

\* What the server may answer to a query of a template: anything, or - when
\* it accepts exactly one template - a result for that template and a
\* rejection for every other.
Answers(template) ==
    IF h_accepts = "any" THEN FuzzResponses
    ELSE {r \in FuzzResponses : Query(r).success <=> template = h_accepts}

\* One iteration of `for i in range(max_attempts)`, the answer taken from
\* answers
AttemptFrom(answers) ==
    /\ pc = "attempts"
    /\ attempt < max_attempts
    /\ \E template \in Templates :
       \E resp \in Answers(template) \cap answers :
       \E address \in ReplacePathParams(template, fstats.paths_tried,
                                         SampleAddresses(MaxSamples)) :
        LET q == Query(resp) IN
        /\ fstats' = FoldQuery(fstats, template, q.success, resp.t)
        /\ h_query' = [NoQuery EXCEPT !.template = template, !.address = address,
                                      !.success = q.success, !.detail = q.detail]
    /\ attempt' = attempt + 1
    /\ UNCHANGED <<config, floodv, pc, session, sink, reports, h_report, h_interrupted,
                   h_preflight>>

\* One iteration of `for i in range(max_attempts)`
Attempt == AttemptFrom(FuzzResponses)

\* After the loop: close_session and _print_report
FuzzReport ==
    /\ pc = "attempts"
    /\ ~(attempt < max_attempts)
    /\ session' = "closed"
    /\ reports' = reports + 1
    /\ UNCHANGED h_report
    /\ pc' = "done"
    /\ UNCHANGED <<config, fuzzv, floodv, sink, h_interrupted>>

(* ----------------------------- environment ---------------------------- *)

\* KeyboardInterrupt raised between two statements of the loop body, outside
\* the fold: `except KeyboardInterrupt` catches it.
InterruptBetween ==
    /\ pc \in {"loop", "pace", "wake"}
    /\ pc' = "final"
    /\ h_interrupted' = TRUE
    /\ UNCHANGED <<config, fuzzv, session, request_id, h_ids, stats, self_methods,
                   local_available, local_unavailable, probe_idx, now, start_loop,
                   end_time, tasks, results, idx, log_tail, log_count, sink,
                   reports, h_report, h_probed, h_clean, h_base, h_stages, h_only500, h_prev_start, h_echo>>

\* KeyboardInterrupt raised while the tasks of a batch are being created,
\* after n of them: abci.py has counted n selections by then.
InterruptInIssue ==
    /\ pc = "loop"
    /\ now < end_time
    /\ driver = "abci"
    /\ \E n \in 1..requests_per_second : \E ms \in [1..n -> Pool] :
        stats' = CountIssued(stats, ms, n)
    /\ pc' = "final"
    /\ h_interrupted' = TRUE
    /\ UNCHANGED <<config, fuzzv, session, request_id, h_ids, self_methods, local_available,
                   local_unavailable, probe_idx, now, start_loop, end_time, tasks,
                   results, idx, log_tail, log_count, sink, reports, h_report, h_probed, h_clean,
                   h_base, h_stages, h_only500, h_prev_start, h_echo>>

\* KeyboardInterrupt raised inside the fold of one result, after n of its
\* statements.
InterruptInFold ==
    /\ pc = "fold"
    /\ idx <= Len(results)
    /\ LET res == results[idx]
           m == tasks[idx]
           stmts == FoldStmts(driver, res, m)
       IN \E n \in 0..(Len(stmts) - 1) :
            stats' = ApplyStmts(stats, stmts, n, res, m)
    /\ pc' = "final"
    /\ h_interrupted' = TRUE
    /\ UNCHANGED <<config, fuzzv, session, request_id, h_ids, self_methods, local_available,
                   local_unavailable, probe_idx, now, start_loop, end_time, tasks,
                   results, idx, log_tail, log_count, sink, reports, h_report, h_probed, h_clean,
                   h_base, h_stages, h_only500, h_prev_start, h_echo>>

\* An interrupt that `except KeyboardInterrupt` does not catch: one raised
\* outside the try block, or delivered while run() is suspended in an await
\* (the event loop is interrupted and run() is cancelled at the await).
\* discover_working_paths has no handler at all.
InterruptUncaught ==
    /\ \/ pc \in {"start", "service", "probe", "probed", "gather", "final"}
       \/ pc = "pace" /\ SleepFor(Elapsed) > 0
       \/ pc \in {"validate", "validate2", "direct", "attempts"}
    /\ pc' = "cancelled"
    /\ h_interrupted' = TRUE
    /\ UNCHANGED <<config, fuzzv, session, request_id, h_ids, stats, self_methods,
                   local_available, local_unavailable, probe_idx, now, start_loop,
                   end_time, tasks, results, idx, log_tail, log_count, sink,
                   reports, h_report, h_probed, h_clean, h_base, h_stages, h_only500, h_prev_start, h_echo>>

\* The log file stops being writable (disk full, directory removed, ...)
SinkFails ==
    /\ pc \notin Terminal
    /\ sink
    /\ sink' = FALSE
    /\ UNCHANGED <<config, fuzzv, h_interrupted, pc, session, request_id, h_ids, stats, self_methods,
                   local_available, local_unavailable, probe_idx, now, start_loop,
                   end_time, tasks, results, idx, log_tail, log_count, reports, h_report,
                   h_probed, h_clean, h_base, h_stages, h_only500, h_prev_start, h_echo>>

\* ... and becomes writable again
SinkRecovers ==
    /\ pc \notin Terminal
    /\ ~sink
    /\ sink' = TRUE
    /\ UNCHANGED <<config, fuzzv, h_interrupted, pc, session, request_id, h_ids, stats, self_methods,
                   local_available, local_unavailable, probe_idx, now, start_loop,
                   end_time, tasks, results, idx, log_tail, log_count, reports, h_report,
                   h_probed, h_clean, h_base, h_stages, h_only500, h_prev_start, h_echo>>

(* --------------------------- specifications --------------------------- *)

\* The steps of the program
Step ==
    \/ CreateSession
    \/ CheckService
    \/ AbciProbeOne
    \/ EthProbeOne
    \/ NoMethods
    \/ StartLoop
    \/ Issue
    \/ LoopExit
    \/ Gather
    \/ FoldOne
    \/ Pace
    \/ EndCycle
    \/ Finalize
    \/ ValidateEndpoint
    \/ ValidateEndpointAgain
    \/ DirectQuery
    \/ Attempt
    \/ FuzzReport

\* The steps of the environment
Env ==
    \/ InterruptBetween
    \/ InterruptInIssue
    \/ InterruptInFold
    \/ InterruptUncaught
    \/ SinkFails
    \/ SinkRecovers

Next == Step \/ Env

Spec == Init /\ [][Next]_vars

\* The program's steps are taken as long as one is possible: requests
\* complete or fail and time advances.  Nothing is assumed of the environment.
FairSpec == Spec /\ WF_vars(Step)

(* --------------- one call of _send_request on any response ------------- *)

\* A flood tester with a session, about to send one request that is answered
\* by h_resp, the log file writable or not.
InitClassify ==
    /\ driver \in Drivers
    /\ methods = <<"m1">>
    /\ requests_per_second = 1
    /\ duration = 1
    /\ max_attempts = 0
    /\ actor_address = ""
    /\ h_resp \in AllResponses
    /\ h_accepts = "any"
    /\ pc = "classify"
    /\ sink \in BOOLEAN
    /\ Fresh

\* success, response_time = await self._send_request(method)
Classify ==
    /\ pc = "classify"
    /\ LET res == SendRequest(driver, h_resp, sink)
           entries == LogEntries("m1", request_id + 1, res.logs)
       IN /\ results' = <<res>>
          /\ log_tail' = log_tail \o entries
          /\ log_count' = log_count + Len(entries)
    /\ request_id' = request_id + 1
    /\ h_ids' = Append(h_ids, request_id + 1)
    /\ pc' = "classified"
    /\ UNCHANGED <<config, fuzzv, h_interrupted, session, stats, self_methods,
                   local_available, local_unavailable, probe_idx, now, start_loop,
                   end_time, tasks, idx, sink, reports, h_report, h_probed, h_clean, h_base, h_stages, h_only500,
                   h_prev_start, h_echo>>

NextClassify == Classify

SpecClassify == InitClassify /\ [][NextClassify]_vars

(* ------- a flood run against a server that answers well and fast ------ *)

\* Every batch request is answered with a result, in half a second
FastOkResponses ==
    {r \in LoopResponses : FailedStage(r) = "none" /\ r.t < TicksPerSec}

\* A flood tester of one method at the scenario's rate
InitThroughput ==
    /\ driver \in Drivers
    /\ methods = <<"m1">>
    /\ requests_per_second = ScenarioR
    /\ duration \in 1..ScenarioD
    /\ max_attempts = 0
    /\ actor_address = ""
    /\ h_resp = NoResponse
    /\ h_accepts = "any"
    /\ Constructed

GatherFastOk == GatherFrom(FastOkResponses)

\* The steps of the program, no signal, the log file writable
NextThroughput ==
    \/ CreateSession
    \/ CheckService
    \/ AbciProbeOne
    \/ EthProbeOne
    \/ NoMethods
    \/ StartLoop
    \/ Issue
    \/ LoopExit
    \/ GatherFastOk
    \/ FoldOne
    \/ Pace
    \/ EndCycle
    \/ Finalize

SpecThroughput == InitThroughput /\ [][NextThroughput]_vars

(* ----- a discovery run against a server that accepts one template ----- *)

\* A fuzzer run for the scenario's budget; the server accepts h_accepts only
InitOneTemplate ==
    /\ driver = "fuzz"
    /\ methods = <<"m1">>
    /\ requests_per_second = 1
    /\ duration = 1
    /\ max_attempts = ScenarioAttempts
    /\ actor_address = ""
    /\ h_resp = NoResponse
    /\ h_accepts \in Templates
    /\ Constructed

\* An attempt answered in half a second by a result or by a rejection code
AttemptAnswered ==
    AttemptFrom({r \in FuzzResponses :
                    r.t = 1 /\ ~r.exc /\ r.body \in {"obj_ok", "obj_code"}})

\* The steps of the fuzzer, no signal
NextOneTemplate ==
    \/ CreateSession
    \/ ValidateEndpoint
    \/ ValidateEndpointAgain
    \/ DirectQuery
    \/ AttemptAnswered
    \/ FuzzReport

SpecOneTemplate == InitOneTemplate /\ [][NextOneTemplate]_vars

(* ----------------- _print_report over finalized statistics ------------- *)

\* Finalized statistics of a run of two methods, of any content: the counts
\* need not agree with one another.
ReportStats ==
    {[InitStats EXCEPT !.total_requests = t,
                       !.successful_requests = sc,
                       !.failed_requests = f,
                       !.requests_by_method["m1"] = a,
                       !.errors_by_method["m1"] = e,
                       !.requests_by_method["m2"] = IF t >= a THEN t - a ELSE 0,
                       !.total_response_time = sm,
                       !.end_time = en] :
        t \in 0..MaxRequests, sc \in 0..MaxRequests, f \in 0..1,
        a \in 0..1, e \in 0..1, sm \in {0, 1, 4},
        en \in 1..MaxDuration}

\* A flood tester whose run is over, about to print its report
InitReport ==
    /\ driver \in Drivers
    /\ methods = <<"m1", "m2">>
    /\ requests_per_second = 1
    /\ duration = 1
    /\ max_attempts = 0
    /\ actor_address = ""
    /\ h_resp = NoResponse
    /\ h_accepts = "any"
    /\ pc = "report"
    /\ sink = TRUE
    /\ session = "closed"
    /\ request_id = 0
    /\ stats \in ReportStats
    /\ self_methods = Range(methods)
    /\ local_available = {}
    /\ local_unavailable = {}
    /\ probe_idx = 1
    /\ now = 0
    /\ start_loop = 0
    /\ end_time = 0
    /\ tasks = <<>>
    /\ results = <<>>
    /\ idx = 1
    /\ log_tail = <<>>
    /\ log_count = 0
    /\ reports = 0
    /\ h_probed = [m \in MethodSet |-> "none"]
    /\ h_base = 0
    /\ h_prev_start = -1
    /\ h_echo = "none"
    /\ h_stages = <<>>
    /\ h_only500 = TRUE
    /\ h_ids = <<>>
    /\ h_clean = {}
    /\ h_report = NoReport
    /\ fstats = InitFuzzStats
    /\ attempt = 0
    /\ h_query = NoQuery
    /\ h_preflight = <<>>
    /\ h_interrupted = FALSE

\* self._print_report()
BuildReport ==
    /\ pc = "report"
    /\ reports < MaxReports
    /\ LET r == PrintReport(driver, stats) IN
        /\ stats' = r.stats
        /\ h_report' = r.metrics
    /\ reports' = reports + 1
    /\ UNCHANGED <<config, fuzzv, h_interrupted, pc, session, request_id, h_ids,
                   self_methods, local_available, local_unavailable, probe_idx,
                   now, start_loop, end_time, tasks, results, idx, log_tail,
                   log_count, sink, h_probed, h_clean, h_base, h_stages,
                   h_only500, h_prev_start, h_echo>>

NextReport == BuildReport

SpecReport == InitReport /\ [][NextReport]_vars

(* ------------- the path and the payload of one discovery query --------- *)

\* A fuzzer about to build the query of a template it has tried before or
\* not, constructed with or without an actor address
InitPayload ==
    /\ driver = "fuzz"
    /\ methods = <<"m1">>
    /\ requests_per_second = 1
    /\ duration = 1
    /\ max_attempts = 1
    /\ actor_address \in {"", ActorAddress, NamedActorAddress}
    /\ h_resp = NoResponse
    /\ h_accepts = "any"
    /\ pc = "payload"
    /\ sink = TRUE
    /\ session = "open"
    /\ request_id = 0
    /\ stats = InitStats
    /\ self_methods = Range(methods)
    /\ local_available = {}
    /\ local_unavailable = {}
    /\ probe_idx = 1
    /\ now = 0
    /\ start_loop = 0
    /\ end_time = 0
    /\ tasks = <<>>
    /\ results = <<>>
    /\ idx = 1
    /\ log_tail = <<>>
    /\ log_count = 0
    /\ reports = 0
    /\ h_probed = [m \in MethodSet |-> "none"]
    /\ h_base = 0
    /\ h_prev_start = -1
    /\ h_echo = "none"
    /\ h_stages = <<>>
    /\ h_only500 = TRUE
    /\ h_ids = <<>>
    /\ h_clean = {}
    /\ h_report = NoReport
    /\ attempt = 0
    /\ h_preflight = <<>>
    /\ h_interrupted = FALSE
    /\ \E t \in PathTemplates : \E tried \in {{}, {t}} :
        /\ h_query = [NoQuery EXCEPT !.template = t]
        /\ fstats = [InitFuzzStats EXCEPT !.paths_tried = tried]

\* path = self._replace_path_params(path_template);
\* data = self._generate_data_for_path(path)
Synthesize ==
    /\ pc = "payload"
    /\ \E address \in ReplacePathParams(h_query.template, fstats.paths_tried,
                                         SampleAddresses(Len(SampleAddressList))) :
       \E cid \in ReplaceCid(h_query.template) :
        LET path == Substitute(h_query.template, address, cid) IN
        h_query' = [h_query EXCEPT !.address = address, !.path = path,
                                   !.data = GenerateDataForPath(path)]
    /\ pc' = "synthesized"
    /\ UNCHANGED <<config, floodv, fstats, attempt, h_preflight, session, sink,
                   reports, h_report, h_interrupted>>

NextPayload == Synthesize

SpecPayload == InitPayload /\ [][NextPayload]_vars

(* ------------------ one query and the answer it gets ------------------ *)

\* A fuzzer with a session, about to send one query that is answered by
\* h_resp.
InitQuery ==
    /\ driver = "fuzz"
    /\ methods = <<"m1">>
    /\ requests_per_second = 1
    /\ duration = 1
    /\ max_attempts = 1
    /\ actor_address = ""
    /\ h_resp \in QueryResponses
    /\ h_accepts = "any"
    /\ pc = "query"
    /\ sink = TRUE
    /\ Fresh

\* success, response_time, response = await self.query(path, data, height, prove)
AskQuery ==
    /\ pc = "query"
    /\ LET q == Query(h_resp) IN
       h_query' = [h_query EXCEPT !.success = q.success, !.detail = q.detail]
    /\ pc' = "queried"
    /\ UNCHANGED <<config, floodv, fstats, attempt, h_preflight, session, sink,
                   reports, h_report, h_interrupted>>

NextQuery == AskQuery

SpecQuery == InitQuery /\ [][NextQuery]_vars

(* ------------------------------- claims -------------------------------- *)

Flood == driver \in Drivers

Folded(st) == st.successful_requests + st.failed_requests

\* C1: in both flood testers, a run that reaches finalization - at its
\* deadline or after a KeyboardInterrupt caught anywhere in the batch loop -
\* has successful_requests + failed_requests = total_requests.
C1_FinalizedCountsAgree ==
    (Flood /\ pc = "done") => Folded(stats) = stats.total_requests

\* C2: a batch of R requests folds exactly R outcomes, however many of them
\* raised: once a batch has been gathered its fold runs to the end (an
\* exception among the results never stops it before the last sibling is
\* counted), and at the end of the fold successful + failed has grown by R.
C2_BatchFullyFolded ==
    Flood =>
        /\ pc = "pace" => Folded(stats) = h_base + requests_per_second
        /\ (pc = "crashed" /\ results # <<>>)
              => Folded(stats) = h_base + requests_per_second

\* The configured methods whose probe came out as v
Probed(v) == {m \in Range(methods) : h_probed[m] = v}

\* C3: every method a batch dispatches was marked available by the probe,
\* and run() holds as available exactly the methods whose probe succeeded;
\* with 5 methods of which 4 probe available and 1 fails, the available set
\* has 4 members and only those 4 are dispatched.
C3_OnlyAvailableDispatched ==
    Flood =>
        /\ \A k \in 1..Len(tasks) : tasks[k] \in Probed("ok")
        /\ pc \in {"probed", "loop", "gather", "fold", "pace", "wake", "final", "done"}
              => stats.available_methods = Probed("ok")
        /\ (pc \in {"loop", "gather", "fold", "pace", "wake"}
             /\ Len(methods) = 5 /\ Cardinality(Probed("ok")) = 4)
              => /\ Cardinality(stats.available_methods) = 4
                 /\ Pool = Probed("ok")

C3_Witness ==
    /\ Flood
    /\ pc = "fold"
    /\ Len(methods) = 5
    /\ Cardinality(Probed("ok")) = 4
    /\ Cardinality(Probed("bad")) = 1
    /\ Len(tasks) = requests_per_second

\* C4: when the probe leaves no method available the run ends at once: the
\* only step left is the exit, no batch request is sent (the request ids
\* taken are those of the probes), total, successful and failed stay 0 and
\* no report is printed.
C4_NoMethodsNoRun ==
    (Flood /\ Probed("none") = {} /\ stats.available_methods = {}) =>
        /\ pc \in {"probed", "exit", "cancelled"}
        /\ pc = "probed" => (ENABLED NoMethods /\ ~ENABLED StartLoop)
        /\ tasks = <<>> /\ results = <<>>
        /\ request_id = Len(methods) + (IF driver = "abci" THEN 1 ELSE 0)
        /\ stats.total_requests = 0
        /\ stats.successful_requests = 0
        /\ stats.failed_requests = 0
        /\ reports = 0

C4_Witness ==
    /\ Flood
    /\ pc = "exit"
    /\ Probed("bad") = Range(methods)
    /\ session = "closed"

\* The stages a response passes when success is returned: no transport
\* exception, status 200, a body that parses, and `"error" in <parsed body>`
\* false - an object without the member, or a string or array that does not
\* contain "error".
PassesAll(resp) ==
    /\ ~resp.exc
    /\ resp.status = 200
    /\ resp.body \in {"obj_ok", "obj_bare", "obj_code", "seq_no"}

\* C5 (as stated): _send_request returns success iff no transport exception
\* occurred, the status is 200, the body parses as JSON and the parsed body
\* has no 'error' member.
C5_SuccessIffNoErrorMember ==
    (Flood /\ pc = "classified") =>
        (results[1].success <=>
            /\ ~h_resp.exc
            /\ h_resp.status = 200
            /\ h_resp.body # "invalid"
            /\ h_resp.body \notin {"obj_err", "obj_notfound"})

\* C5 (amended): _send_request returns success iff no transport exception
\* occurred, the status is 200, the body parses as JSON and the test
\* `"error" in <parsed body>` is false without raising; the verdict depends
\* on (transport outcome, status, body) alone - not on the latency, the
\* tester or the state of the log file.
C5_SuccessIffAllStagesPass ==
    (Flood /\ pc = "classified") => (results[1].success <=> PassesAll(h_resp))

C5_Witness ==
    /\ Flood
    /\ pc = "classified"
    /\ ~h_resp.exc /\ h_resp.status = 200 /\ h_resp.body = "scalar"
    /\ ~results[1].success

\* The kind of the first stage of the decision order a response fails at:
\* transport, status, parse, error member.
FirstFailingStage(resp) ==
    IF resp.exc THEN "Exception"
    ELSE IF resp.status # 200 THEN "HTTP"
    ELSE IF resp.body = "invalid" THEN "InvalidJSON"
    ELSE "Response"

\* C6: the detail logged for a failed request is of the kind of the first
\* failing stage; in particular a response that arrived with status 200 and
\* a body that parses is never logged as an exception, and a body that does
\* not parse is never logged as a protocol error.
C6_LogKindIsFirstFailingStage ==
    (Flood /\ pc = "classified" /\ sink) =>
        \A k \in 1..Len(log_tail) :
            /\ log_tail[k].detail = FirstFailingStage(h_resp)
            /\ (~h_resp.exc /\ h_resp.status = 200 /\ h_resp.body # "invalid")
                  => log_tail[k].detail # "Exception"
            /\ (~h_resp.exc /\ h_resp.body = "invalid")
                  => log_tail[k].detail # "Response"

Sentinels(st) == st.min_response_time = Inf /\ st.max_response_time = 0

\* C7 (as stated): min_response_time <= max_response_time whenever
\* total_requests > 0, and both are at their sentinels when total_requests
\* is 0.
C7_MinMaxByTotal ==
    Flood =>
        /\ stats.total_requests > 0 => stats.min_response_time <= stats.max_response_time
        /\ stats.total_requests = 0 => Sentinels(stats)

\* C7 (amended): min_response_time <= max_response_time whenever a latency
\* has been folded (max_response_time > 0); both are at their sentinels as
\* long as no outcome has been folded and, in ethereum.py, as long as no
\* request has succeeded - whatever total_requests is.
C7_MinMaxByFolded ==
    Flood =>
        /\ stats.max_response_time > 0
              => stats.min_response_time <= stats.max_response_time
        /\ Folded(stats) = 0 => Sentinels(stats)
        /\ (driver = "eth" /\ stats.successful_requests = 0) => Sentinels(stats)

C7_Witness ==
    /\ Flood
    /\ pc = "done"
    /\ ~h_interrupted
    /\ stats.total_requests > 0
    /\ stats.successful_requests = 0
    /\ Sentinels(stats)

\* C8: a cycle that took less than a second sleeps for the remainder, one
\* that took a second or more does not sleep; no time passes between the end
\* of the sleep and the next cycle's start, so the next cycle starts a second
\* after the previous start or, after an overrun, at once; every cycle
\* issues exactly requests_per_second requests and batches are only started
\* at the top of the loop - no larger batch, no extra batch, no shorter sleep.
C8_Pacing ==
    [][Flood =>
        /\ (pc = "pace" /\ pc' = "wake")
              => now' = Max(now, start_loop + TicksPerSec)
        /\ pc \in {"wake", "loop"} => now' = now
        /\ (pc = "loop" /\ pc' = "gather")
              => /\ Len(tasks') = requests_per_second
                 /\ start_loop' = now
                 /\ tasks # <<>> => start_loop' >= start_loop + TicksPerSec
        /\ (pc' = "gather" /\ pc # "gather") => pc = "loop"
        /\ pc \in {"gather", "fold", "pace", "wake"}
              => Len(tasks) = requests_per_second /\ tasks' = tasks
      ]_vars

C8_Witness ==
    /\ Flood
    /\ pc = "gather"
    /\ h_prev_start >= 0
    /\ start_loop > h_prev_start + TicksPerSec
    /\ Len(tasks) = requests_per_second

\* C9: the deadline is looked at at the start of a cycle and nowhere else.
\* A check before the deadline starts a batch, the first check at or after
\* it leaves the loop, so no batch starts at or after the deadline; once a
\* batch is started its gather and its fold go on whatever the time is, and
\* the run never leaves a started batch for the deadline's sake.
C9_DeadlineAtCycleStart ==
    /\ [](Flood =>
            /\ pc \in {"gather", "fold", "pace", "wake"} => start_loop < end_time
            /\ (pc = "loop" /\ now < end_time) => (ENABLED Issue /\ ~ENABLED LoopExit)
            /\ (pc = "loop" /\ now >= end_time) => (ENABLED LoopExit /\ ~ENABLED Issue)
            /\ pc = "gather" => ENABLED Gather
            /\ (pc = "fold" /\ idx <= Len(results)) => ENABLED FoldOne)
    /\ [][Flood =>
            /\ (pc = "loop" /\ pc' = "gather") => now < end_time
            /\ (pc = "loop" /\ pc' = "final" /\ ~h_interrupted') => now >= end_time
            /\ (pc \in {"gather", "fold", "pace", "wake"} /\ pc' = "final")
                  => h_interrupted'
         ]_vars

C9_Witness ==
    /\ Flood
    /\ pc = "pace"
    /\ ~h_interrupted
    /\ start_loop < end_time
    /\ now > end_time
    /\ Folded(stats) = h_base + requests_per_second

\* A run inside its loop, and a run that ended with its report
InLoop ==
    \/ Flood /\ pc = "loop"
    \/ driver = "fuzz" /\ pc = "attempts"

Reported ==
    /\ pc = "done"
    /\ reports = 1
    /\ Flood => (stats.end_time = now /\ now >= end_time)
    /\ driver = "fuzz" => attempt = max_attempts

\* C10: a run that has entered its loop and is not stopped by a signal
\* finishes with its report: a flood run passes its deadline check, records
\* end_time and prints the report; a discovery run uses up its attempts and
\* prints the report.
C10_RunsReachTheirReport == InLoop ~> (Reported \/ h_interrupted)

\* C11: when every request succeeds and every cycle is over in well under a
\* second, a run of rate R and duration D that reaches its report has sent
\* one batch per second of its duration: failed_requests = 0 and
\* total_requests = R * D, which for R = 10 and D = 3 lies between 28 and 32.
C11_Throughput ==
    (Flood /\ pc = "done") =>
        /\ stats.failed_requests = 0
        /\ stats.total_requests = requests_per_second * duration
        /\ stats.successful_requests = stats.total_requests
        /\ (requests_per_second = 10 /\ duration = 3)
              => (28 <= stats.total_requests /\ stats.total_requests <= 32)

C11_Witness ==
    /\ Flood
    /\ pc = "done"
    /\ requests_per_second = 10
    /\ duration = 3
    /\ stats.total_requests = 30
    /\ stats.failed_requests = 0

Fuzz == driver = "fuzz"

\* The templates failed_paths has a key for
FailedKeys(st) == {t \in Templates : st.failed_paths[t] > 0}

\* C12: a discovery run whose validations pass makes exactly max_attempts
\* queries: every iteration counts one query whatever its outcome, and the
\* run ends with total_queries = max_attempts.
C12_ExactlyMaxAttempts ==
    Fuzz =>
        /\ fstats.total_queries = attempt
        /\ attempt <= max_attempts
        /\ fstats.successful_queries + fstats.failed_queries = fstats.total_queries
        /\ pc = "done" => fstats.total_queries = max_attempts

C12_Witness ==
    /\ Fuzz
    /\ pc = "done"
    /\ max_attempts >= 3
    /\ fstats.total_queries = max_attempts
    /\ fstats.successful_queries >= 1
    /\ fstats.failed_queries >= 2
    /\ h_query.detail = "exception"

\* C13: discovery is gated by _validate_endpoint, then _test_direct_query.
\* A failed validation is the last request of the run: nothing is sent after
\* it, the abci_query probe is only sent after the endpoint validation
\* passed, the attempt loop is only entered after both passed, and the
\* aborted run leaves total_queries at 0 and the three path collections
\* empty.
C13_ValidationGates ==
    Fuzz =>
        /\ pc = "exit" =>
              /\ fstats = InitFuzzStats
              /\ attempt = 0 /\ h_query = NoQuery /\ reports = 0
              /\ h_preflight # <<>>
              /\ h_preflight[Len(h_preflight)].verdict = "no"
        /\ \A k \in 1..Len(h_preflight) :
              /\ h_preflight[k].verdict = "no"
                    => (k = Len(h_preflight) /\ pc = "exit")
              /\ k = 1 => h_preflight[k].req = "status"
              /\ h_preflight[k].req = "abci_info"
                    => (k = 2 /\ h_preflight[1].verdict = "retry")
              /\ h_preflight[k].req = "abci_query"
                    => (k > 1 /\ h_preflight[k - 1].verdict = "yes")
        /\ (attempt > 0 \/ pc \in {"attempts", "done"}) =>
              /\ h_preflight # <<>>
              /\ h_preflight[Len(h_preflight)] = [req |-> "abci_query", verdict |-> "yes"]

C13_Witness ==
    /\ Fuzz
    /\ pc = "exit"
    /\ h_preflight = <<[req |-> "status", verdict |-> "no"]>>
    /\ fstats.total_queries = 0

\* C14: in every state of a discovery run successful_paths and the keys of
\* failed_paths are within paths_tried, paths_tried is within the template
\* set and has at most as many members as there are templates.
C14_TriedCoversOutcomes ==
    Fuzz =>
        /\ fstats.successful_paths \subseteq fstats.paths_tried
        /\ FailedKeys(fstats) \subseteq fstats.paths_tried
        /\ fstats.paths_tried \subseteq Templates
        /\ Cardinality(fstats.paths_tried) <= Cardinality(Templates)

C14_Witness ==
    /\ Fuzz
    /\ fstats.paths_tried = Templates
    /\ fstats.successful_paths # {}
    /\ FailedKeys(fstats) # {}

\* C15 (as stated): against a server that accepts exactly one template T, a
\* discovery run of 50 attempts always ends with successful_paths = {T} and
\* at most 50 templates tried.
C15_FindsTheTemplate ==
    (Fuzz /\ pc = "done" /\ h_accepts \in Templates /\ max_attempts = 50) =>
        /\ fstats.successful_paths = {h_accepts}
        /\ Cardinality(fstats.paths_tried) <= 50

\* C15 (amended): against a server that accepts exactly one template T, a
\* discovery run never holds another template than T for successful; it
\* ends with successful_paths = {T} if T was drawn at least once and with
\* successful_paths empty otherwise, and with at most max_attempts templates
\* tried.
C15_FindsTheTemplateIfDrawn ==
    (Fuzz /\ h_accepts \in Templates) =>
        /\ fstats.successful_paths \subseteq {h_accepts}
        /\ fstats.successful_paths = {h_accepts} <=> h_accepts \in fstats.paths_tried
        /\ Cardinality(fstats.paths_tried) <= attempt
        /\ pc = "done" => (attempt = max_attempts
                           /\ Cardinality(fstats.paths_tried) <= max_attempts)

C15_Witness ==
    /\ Fuzz
    /\ pc = "done"
    /\ h_accepts \in Templates
    /\ max_attempts = 50
    /\ fstats.total_queries = 50
    /\ h_accepts \notin fstats.paths_tried
    /\ fstats.successful_paths = {}

\* A flood run inside its batch loop
InBatchLoop == Flood /\ pc \in {"loop", "gather", "fold", "pace", "wake"}

\* A signal is delivered in this step
Signalled == ~h_interrupted /\ h_interrupted'

\* C16: a KeyboardInterrupt that arrives while a batch is in flight stops the
\* run between cycles only: the batch is gathered, all its
\* requests_per_second outcomes are folded, and then the loop is left; a
\* run stopped by a signal never holds a batch that is not fully folded.
C16_StopBetweenCycles ==
    (Flood /\ h_interrupted /\ tasks # <<>>) =>
        /\ pc \in {"final", "done"}
        /\ Len(results) = requests_per_second
        /\ Folded(stats) = h_base + requests_per_second

\* C17: a flood run that a signal stops inside its batch loop goes on to
\* finalize: the signal takes it to the finalization, which records
\* end_time, closes the session and prints the report once, the counters
\* left as they were.
C17_InterruptedFloodFinalizes ==
    [][/\ (InBatchLoop /\ Signalled) => pc' = "final"
       /\ (Flood /\ pc = "final" /\ pc' # "final")
             => /\ pc' = "done"
                /\ reports' = 1
                /\ session' = "closed"
                /\ stats' = [stats EXCEPT !.end_time = now]
      ]_vars

\* C18: a discovery run that a signal stops inside its attempt loop goes on
\* to finalize: the session is closed and the report is printed from the
\* state accumulated before the signal.
C18_InterruptedDiscoveryFinalizes ==
    [][(Fuzz /\ pc = "attempts" /\ Signalled)
          => /\ pc' \in {"attempts", "done"}
             /\ fstats' = fstats
             /\ pc' = "done" => (session' = "closed" /\ reports' = 1)
      ]_vars

\* C19: a run opens one session before its first request and closes it on
\* every way out: no run of any driver ends with the session open, and
\* while requests are being sent the session is open.
C19_SessionClosedAtEnd ==
    /\ pc = "start" => session = "none"
    /\ pc \notin (Terminal \cup {"start"}) => session = "open"
    /\ pc \in Terminal => session # "open"

\* C20: a log file that cannot be written never ends a flood run: once the
\* batch loop is entered no exception leaves run().
C20_LogFailureNeverAborts ==
    (Flood /\ end_time > 0) => pc # "crashed"

\* The results of the current batch that the fold has counted: those before
\* idx, and the one the fold was at when the log file stopped it.
Counted ==
    IF pc \in {"fold", "pace", "wake"} THEN 1..(idx - 1)
    ELSE IF pc = "crashed" /\ idx <= Len(results) THEN 1..idx
    ELSE {}

\* The id _send_request gave the k-th request of the current batch.
BatchId(k) == request_id - Len(tasks) + k

\* Request k of the batch has an entry with its method, its payload and the
\* detail of the stage its answer failed at.
Logged(k) ==
    \E e \in Range(log_tail) :
        /\ e.method = tasks[k]
        /\ e.id = BatchId(k)
        /\ e.detail = h_stages[k]

LogUnwritable(k) == results[k].raised /\ results[k].logs = <<>>

C22_IdsIncrease ==
    Flood => \A i, j \in 1..Len(h_ids) : i < j => h_ids[i] < h_ids[j]

\* Probes and a batch of two requests have been sent
C22_Witness ==
    /\ Flood
    /\ pc = "fold"
    /\ Len(tasks) = 2
    /\ Len(h_ids) >= 3
    /\ h_ids[Len(h_ids)] = request_id

\* C23: in every state of a flood run and for every method m,
\* requests_by_method[m] >= errors_by_method[m].
C23_RequestsCoverErrors ==
    Flood => \A m \in MethodSet :
                stats.requests_by_method[m] >= stats.errors_by_method[m]

\* Failures of two methods have been counted
C23_Witness ==
    /\ Flood
    /\ \E m1, m2 \in MethodSet :
        /\ m1 # m2
        /\ stats.errors_by_method[m1] > 0
        /\ stats.errors_by_method[m2] > 0
        /\ stats.requests_by_method[m1] = stats.errors_by_method[m1]

\* C24: the prober marks a method available if and only if its probe was
\* answered with an HTTP success that carries no error; an HTTP 200 with a
\* protocol error marks it unavailable, in both flood testers.
C24_AvailableIffCleanAnswer ==
    Flood => \A m \in MethodSet :
                h_probed[m] # "none" => (h_probed[m] = "ok" <=> m \in h_clean)

\* C25: the prober sends one request per method and puts every method in
\* exactly one of available / unavailable; a failed probe marks its own
\* method unavailable, never raises out of the prober and does not keep the
\* remaining methods from being probed.
C25_ProbingIsTotal ==
    Flood =>
        /\ ~(pc = "crashed" /\ tasks = <<>>)
        /\ pc = "probed" =>
            /\ Len(h_ids) = Len(methods) + (IF driver = "abci" THEN 1 ELSE 0)
            /\ \A m \in Range(methods) : h_probed[m] \in {"ok", "bad"}
            /\ stats.available_methods = Probed("ok")
            /\ driver = "eth" =>
                /\ stats.unavailable_methods = Probed("bad")
                /\ stats.available_methods \cap stats.unavailable_methods = {}

Reordered(seq, p) == [k \in 1..Len(seq) |-> seq[p[k]]]

\* C27: folding a batch is order-independent: whatever the order its outcomes
\* are folded in, the statistics after the fold are the same.
C27_FoldOrderIndependent ==
    (Flood /\ pc = "fold" /\ idx = 1) =>
        \A p \in Permutations(1..Len(results)) :
            FoldAll(driver, stats, Reordered(results, p), Reordered(tasks, p))
                = FoldAll(driver, stats, results, tasks)

\* A batch of a success and a failure, of two methods and two latencies, is
\* about to be folded
C27_Witness ==
    /\ Flood
    /\ pc = "fold"
    /\ idx = 1
    /\ Len(results) = 2
    /\ tasks[1] # tasks[2]
    /\ results[1].success /\ ~results[2].success /\ ~results[2].raised
    /\ results[1].rt # results[2].rt

\* The value put into the path contains the keyword of no payload rule.
PlainValues == GenerateDataForPath(h_query.address) = {}

\* C29 (as stated): the payload is decided by the template's name: a template
\* containing "Balance" gets an address and a denomination, one containing
\* "Proposal" a proposal id, one matching no rule the empty payload; the
\* values substituted never change the rule.
C29_PayloadByTemplateName ==
    (Fuzz /\ pc = "synthesized") =>
        LET t == h_query.template IN
        /\ Contains(t, "Balance") => h_query.data = {"address", "denom"}
        /\ Contains(t, "Proposal") => h_query.data = {"proposal_id"}
        /\ h_query.data = GenerateDataForPath(t)

\* C29 (amended): the payload is decided by the first rule the substituted
\* path matches: "AllBalances" gets an address only, any other "Balance" an
\* address and a denomination, "Proposal" but not "Proposals" a proposal id;
\* a substituted value that contains no rule's keyword does not change the
\* rule, so a template matching no rule then gets the empty payload.
C29_PayloadByFirstRule ==
    (Fuzz /\ pc = "synthesized") =>
        LET t == h_query.template IN
        /\ Contains(t, "AllBalances") => h_query.data = {"address"}
        /\ (Contains(t, "Balance") /\ ~Contains(t, "AllBalances"))
               => h_query.data = {"address", "denom"}
        /\ (Contains(t, "Proposal") /\ ~Contains(t, "Proposals"))
               => h_query.data = {"proposal_id"}
        /\ PlainValues => h_query.data = GenerateDataForPath(t)
        /\ ~PlainValues => h_query.data = GenerateDataForPath(h_query.path)

\* The payload of the AllBalances template has been built
C29_Witness ==
    /\ Fuzz
    /\ pc = "synthesized"
    /\ h_query.template = "/cosmos.bank.v1beta1.Query/AllBalances"
    /\ h_query.path = h_query.template
    /\ h_query.data = {"address"}

\* An attempt of the discovery loop on a template with the {address}
\* placeholder, by a fuzzer that was given an actor address
AddressAttempt ==
    /\ Fuzz
    /\ pc = "attempts"
    /\ attempt' = attempt + 1
    /\ actor_address # ""
    /\ h_query'.template \in HasAddress

\* C28: with an actor address supplied, the first attempt on each template
\* that has the {address} placeholder substitutes that address; the second
\* and later attempts on the template draw from the sample pool.
C28_KnownAddressFirst ==
    [][AddressAttempt =>
          IF h_query'.template \notin fstats.paths_tried
          THEN h_query'.address = actor_address
          ELSE h_query'.address \in SampleAddresses(MaxSamples)]_vars

\* A second attempt on the template has drawn another address than the
\* supplied one
C28_Witness ==
    /\ Fuzz
    /\ actor_address # ""
    /\ attempt >= 2
    /\ h_query.template \in HasAddress
    /\ h_query.address # actor_address

\* The three latency statistics of a run
LatencyStats(st) ==
    <<st.min_response_time, st.max_response_time, st.total_response_time>>

\* One outcome of the batch is folded into the statistics
FoldsAnOutcome ==
    /\ Flood
    /\ pc = "fold"
    /\ idx <= Len(results)
    /\ idx' = idx + 1

\* C30: latency statistics accumulate successful requests only: folding an
\* outcome changes min_response_time, max_response_time or
\* total_response_time if and only if the request succeeded; a failed
\* request leaves all three unchanged.
C30_LatencyOfSuccessesOnly ==
    [][FoldsAnOutcome =>
          (LatencyStats(stats') # LatencyStats(stats) <=> results[idx].success)]_vars

\* The same, of RPCFloodTester alone
EthLatencyOfSuccessesOnly ==
    [][(FoldsAnOutcome /\ driver = "eth") =>
          (LatencyStats(stats') # LatencyStats(stats) <=> results[idx].success)]_vars

\* The query has been answered by h_resp
Queried == driver = "fuzz" /\ pc = "queried"

\* The answer passes the transport, status and parse checks
Parsed(r) == ~r.exc /\ r.status = 200 /\ r.body # "invalid"

\* The parsed body is an object with a top-level "error" member
ErrorMember(r) == r.body \in {"obj_err", "obj_notfound"}

CountsAgree(st) == st.successful_requests + st.failed_requests = st.total_requests

\* C32: in RPCFloodTester.run successful_requests + failed_requests ==
\* total_requests holds at every observation point between the folds of
\* individual outcomes, and so also after an interrupt in the middle of a
\* fold or of the pacing sleep.
C32_EthCountsAgreeThroughout ==
    driver = "eth" => CountsAgree(stats)

\* The same, of the runs that no KeyboardInterrupt has cut
EthCountsAgreeUninterrupted ==
    (driver = "eth" /\ ~h_interrupted) => CountsAgree(stats)

\* The requests in flight: the tasks handed to asyncio.gather, until it
\* returns
InFlight == IF pc = "gather" THEN Len(tasks) ELSE 0

\* A batch is issued
IssuesBatch == Flood /\ pc # "gather" /\ pc' = "gather"

\* The batch before, if there was one, has completed and is folded whole
BatchBeforeFolded ==
    tasks # <<>> =>
        /\ Len(results) = Len(tasks)
        /\ idx = Len(results) + 1
        /\ Folded(stats) = h_base + Len(tasks)

\* C33: cycles of the batch loop never overlap: a batch is issued only after
\* all requests of the batch before have completed and all their outcomes
\* are folded, and at every moment at most R requests are in flight, also
\* when cycles overrun one second.
C33_CyclesNeverOverlap ==
    [][/\ IssuesBatch => BatchBeforeFolded
       /\ InFlight' <= requests_per_second]_vars

\* A second batch is in flight after a cycle that took more than a second
C33_Witness ==
    /\ Flood
    /\ pc = "gather"
    /\ InFlight = requests_per_second
    /\ h_prev_start >= 0
    /\ start_loop - h_prev_start > TicksPerSec

\* An attempt on a template that has succeeded before fails
FlakyFailure ==
    /\ Fuzz
    /\ attempt' = attempt + 1
    /\ ~h_query'.success
    /\ h_query'.template \in fstats.successful_paths

\* C34: discovery state only grows: successful_paths and paths_tried never
\* lose a member and no failed_paths count decreases; a failed attempt on a
\* template that is already successful only increments its failed_paths
\* count, so that the template is in both.
C34_DiscoveryOnlyGrows ==
    [][/\ fstats.successful_paths \subseteq fstats'.successful_paths
       /\ fstats.paths_tried \subseteq fstats'.paths_tried
       /\ \A t \in Templates : fstats.failed_paths[t] <= fstats'.failed_paths[t]
       /\ FlakyFailure =>
             /\ fstats'.successful_paths = fstats.successful_paths
             /\ fstats'.paths_tried = fstats.paths_tried
             /\ fstats'.failed_paths =
                   [fstats.failed_paths EXCEPT ![h_query'.template] = @ + 1]]_vars

\* A template has succeeded and then failed: it is in both
C34_Witness ==
    /\ Fuzz
    /\ ~h_query.success
    /\ h_query.template \in fstats.successful_paths
    /\ fstats.failed_paths[h_query.template] > 0

\* A cycle of the batch loop has just been completed
CycleCompleted == Flood /\ pc = "loop" /\ tasks # <<>>

\* C35: at the end of every completed cycle the per-method counters add up
\* to the totals: the requests_by_method sum to total_requests, the
\* errors_by_method sum to failed_requests, and only available methods have
\* a request count other than zero.
C35_PerMethodSumsAgree ==
    CycleCompleted =>
        /\ SumFn(stats.requests_by_method, MethodSet) = stats.total_requests
        /\ SumFn(stats.errors_by_method, MethodSet) = stats.failed_requests
        /\ \A m \in MethodSet : stats.requests_by_method[m] > 0 => m \in Pool

\* A cycle of two requests of ABCIFloodTester, to two methods, one of them
\* failed, is completed
C35_Witness ==
    /\ CycleCompleted
    /\ driver = "abci"
    /\ stats.total_requests = 2
    /\ stats.failed_requests = 1
    /\ Cardinality({m \in MethodSet : stats.requests_by_method[m] = 1}) = 2

\* C36: over a whole flood run, probe phase included, the failure log
\* receives exactly one entry per request counted in failed_requests and none
\* for any other request: at the end of the run the number of log entries
\* equals failed_requests.
C36_OneEntryPerFailure ==
    (Flood /\ pc = "done") => log_count = stats.failed_requests

\* C37: in ABCIFloodTester.run total_requests is advanced only at the end of
\* a cycle, by the batch size: in every reachable state total_requests is a
\* multiple of R, total_requests <= successful_requests + failed_requests <=
\* total_requests + R, and the requests_by_method sum to at least
\* total_requests and at most total_requests + R.
C37_AbciTotalLagsByABatch ==
    driver = "abci" =>
        LET R == requests_per_second
            byMethod == SumFn(stats.requests_by_method, MethodSet)
        IN /\ stats.total_requests % R = 0
           /\ stats.total_requests <= Folded(stats)
           /\ Folded(stats) <= stats.total_requests + R
           /\ stats.total_requests <= byMethod
           /\ byMethod <= stats.total_requests + R

\* The second batch of a run is folded and not yet added to total_requests
C37_Witness ==
    /\ driver = "abci"
    /\ pc = "pace"
    /\ stats.total_requests > 0
    /\ Folded(stats) = stats.total_requests + requests_per_second
    /\ SumFn(stats.requests_by_method, MethodSet)
           = stats.total_requests + requests_per_second

\* No method probe has been sent
NoMethodProbed == \A m \in MethodSet : h_probed[m] = "none"

\* C38: ABCIFloodTester.run sends the echo probe before any method probe; if
\* the echo gets a status other than 200 or raises, the run closes the session
\* and exits without sending a method probe or a batch request, the
\* available set empty and all counters at 0.
C38_ServiceCheckFirst ==
    driver = "abci" =>
        /\ h_echo = "none" => (h_ids = <<>> /\ NoMethodProbed /\ tasks = <<>>)
        /\ h_echo \in {"refused", "raised"} =>
              /\ pc = "exit"
              /\ session = "closed"
              /\ h_ids = <<1>>
              /\ NoMethodProbed
              /\ tasks = <<>>
              /\ stats = InitStats

\* The echo probe was answered with a status other than 200 and the run has
\* exited
C38_Witness ==
    /\ driver = "abci"
    /\ h_echo = "refused"
    /\ pc = "exit"
    /\ session = "closed"

\* C39: in every reachable state of a discovery run total_queries ==
\* successful_queries + failed_queries, the failed_paths counts sum to
\* failed_queries, len(paths_tried) <= total_queries <= max_attempts, and
\* successful_paths is non-empty exactly when successful_queries > 0.
C39_DiscoveryCountsAgree ==
    Fuzz =>
        /\ fstats.total_queries
              = fstats.successful_queries + fstats.failed_queries
        /\ SumFn(fstats.failed_paths, Templates) = fstats.failed_queries
        /\ Cardinality(fstats.paths_tried) <= fstats.total_queries
        /\ fstats.total_queries <= max_attempts
        /\ fstats.successful_paths # {} <=> fstats.successful_queries > 0

\* Three queries have been made: a template has failed twice, another has
\* succeeded
C39_Witness ==
    /\ Fuzz
    /\ fstats.total_queries = 3
    /\ \E t \in Templates : fstats.failed_paths[t] = 2
    /\ fstats.successful_queries = 1
    /\ Cardinality(fstats.paths_tried) = 2

====
